---- MODULE Spec2Model ----
(***************************************************************************)
(* Multi-Layer Type Analysis (MLTA) indirect-call resolver.                *)
(*                                                                         *)
(* The model follows CallGraph.cc: the type-flow collection over the       *)
(* store instructions of a module (typeConfineInFunction,                  *)
(* typePropInFunction, collectAliasStructPtr), the layer walker            *)
(* (nextLayerBaseType, getGEPLayerTypes, getBaseType, getBaseTypeChain)    *)
(* and the resolver findCalleesWithMLTA with its cache MatchedFuncsMap.    *)
(***************************************************************************)
EXTENDS Integers, Sequences, FiniteSets, TLC

VARIABLES
    SOUND_MODE,              \* build flag: #ifdef SOUND_MODE
    MLTA_FIELD_INSENSITIVE,  \* build flag: #ifdef MLTA_FIELD_INSENSITIVE
    stores,                  \* memory-writing instructions of the analysed function
    casts,                   \* optional cast instructions the analysed function holds
    globals,                 \* global variables of the module that have an initializer
    todo,                    \* collection passes not yet run
    sigFuncsMap,             \* Ctx->sigFuncsMap : call-signature hash -> FuncSet
    typeIdxFuncsMap,         \* type hash -> (index -> FuncSet)
    typeIdxPropMap,          \* type hash -> (index -> set of (hash, index))
    typeCapSet,              \* set of type hashes
    typeEscapeSet,           \* set of type-index hashes
    AliasStructPtrMap,       \* function -> (value -> cast value)
    VTableFuncsMap,          \* global variable -> FuncSet
    MatchedFuncsMap,         \* cache: hash -> FuncSet
    lastCI,                  \* call site of the last finished query ("none" before)
    FS,                      \* output set of the last query
    qlog,                    \* what the last query did, in order
    ret                      \* arguments and result of the last call of a helper

vars == <<SOUND_MODE, MLTA_FIELD_INSENSITIVE, stores, casts, globals, todo,
          sigFuncsMap, typeIdxFuncsMap, typeIdxPropMap, typeCapSet,
          typeEscapeSet, AliasStructPtrMap, VTableFuncsMap, MatchedFuncsMap,
          lastCI, FS, qlog, ret>>

-----------------------------------------------------------------------------
(* Bounds of the model *)

\* layer limit of the resolver (MAX_TYPE_LAYER of MLTA.h)
MAX_TYPE_LAYER == 4

\* number of store/memcpy instructions in the analysed function
MaxStores == 2

-----------------------------------------------------------------------------
(* The IR facade: types *)

NULL == "NULL"

\* kind: struct | array | vector | func | ptr | int
\* elems: element types of a struct, the element type of an array or vector
\* pointee: pointee of a pointer;  size: store size in pointer-size units
Types ==
    [ FT   |-> [kind |-> "func",   elems |-> <<>>,              pointee |-> NULL,  size |-> 0],
      FT2  |-> [kind |-> "func",   elems |-> <<>>,              pointee |-> NULL,  size |-> 0],
      FP   |-> [kind |-> "ptr",    elems |-> <<>>,              pointee |-> "FT",  size |-> 1],
      FT3  |-> [kind |-> "func",   elems |-> <<>>,              pointee |-> NULL,  size |-> 0],
      FP2  |-> [kind |-> "ptr",    elems |-> <<>>,              pointee |-> "FT2", size |-> 1],
      FP3  |-> [kind |-> "ptr",    elems |-> <<>>,              pointee |-> "FT3", size |-> 1],
      FPP  |-> [kind |-> "ptr",    elems |-> <<>>,              pointee |-> "FP",  size |-> 1],
      S    |-> [kind |-> "struct", elems |-> <<"FP", "FP">>,    pointee |-> NULL,  size |-> 2],
      SP   |-> [kind |-> "ptr",    elems |-> <<>>,              pointee |-> "S",   size |-> 1],
      SPP  |-> [kind |-> "ptr",    elems |-> <<>>,              pointee |-> "SP",  size |-> 1],
      O    |-> [kind |-> "struct", elems |-> <<"S", "SP", "OP">>, pointee |-> NULL, size |-> 4],
      OP   |-> [kind |-> "ptr",    elems |-> <<>>,              pointee |-> "O",   size |-> 1],
      OPP  |-> [kind |-> "ptr",    elems |-> <<>>,              pointee |-> "OP",  size |-> 1],
      AS   |-> [kind |-> "array",  elems |-> <<"S">>,           pointee |-> NULL,  size |-> 4],
      ASP  |-> [kind |-> "ptr",    elems |-> <<>>,              pointee |-> "AS",  size |-> 1],
      I8   |-> [kind |-> "int",    elems |-> <<>>,              pointee |-> NULL,  size |-> 1],
      I8P  |-> [kind |-> "ptr",    elems |-> <<>>,              pointee |-> "I8",  size |-> 1],
      I8PP |-> [kind |-> "ptr",    elems |-> <<>>,              pointee |-> "I8P", size |-> 1],
      I32  |-> [kind |-> "int",    elems |-> <<>>,              pointee |-> NULL,  size |-> 1],
      I32P |-> [kind |-> "ptr",    elems |-> <<>>,              pointee |-> "I32", size |-> 1],
      I64  |-> [kind |-> "int",    elems |-> <<>>,              pointee |-> NULL,  size |-> 1],
      I64P |-> [kind |-> "ptr",    elems |-> <<>>,              pointee |-> "I64", size |-> 1],
      S2   |-> [kind |-> "struct", elems |-> <<"FP", "FP">>,    pointee |-> NULL,  size |-> 2],
      S2P  |-> [kind |-> "ptr",    elems |-> <<>>,              pointee |-> "S2",  size |-> 1],
      T    |-> [kind |-> "struct", elems |-> <<"I64", "FP">>,   pointee |-> NULL,  size |-> 2],
      TP   |-> [kind |-> "ptr",    elems |-> <<>>,              pointee |-> "T",   size |-> 1],
      AV   |-> [kind |-> "array",  elems |-> <<"I8P">>,         pointee |-> NULL,  size |-> 3],
      AVP  |-> [kind |-> "ptr",    elems |-> <<>>,              pointee |-> "AV",  size |-> 1],
      FTV  |-> [kind |-> "func",   elems |-> <<>>,              pointee |-> NULL,  size |-> 0],
      FPV  |-> [kind |-> "ptr",    elems |-> <<>>,              pointee |-> "FTV", size |-> 1],
      FTW  |-> [kind |-> "func",   elems |-> <<>>,              pointee |-> NULL,  size |-> 0],
      FPW  |-> [kind |-> "ptr",    elems |-> <<>>,              pointee |-> "FTW", size |-> 1],
      FTX  |-> [kind |-> "func",   elems |-> <<>>,              pointee |-> NULL,  size |-> 0],
      FPX  |-> [kind |-> "ptr",    elems |-> <<>>,              pointee |-> "FTX", size |-> 1] ]

TypeIds == DOMAIN Types

isPointerTy(Ty) == Types[Ty].kind = "ptr"
isStructTy(Ty) == Types[Ty].kind = "struct"
getPointerElementType(Ty) == Types[Ty].pointee

isCompositeType(Ty) == Types[Ty].kind \in {"struct", "array", "vector"}

\* Int8PtrTy[M]: the byte-pointer type of the module
Int8PtrTy == "I8P"

\* the modules of the program: M1 has 64-bit pointers, M2 32-bit pointers
Modules == {"M1", "M2"}

\* IntPtrTy[M]: the integer type of pointer width of the module
IntPtrTy(M) == [M1 |-> "I64", M2 |-> "I32"][M]

isIntegerTy(Ty) == Types[Ty].kind = "int"
getIntegerBitWidth(Ty) == [I8 |-> 8, I32 |-> 32, I64 |-> 64][Ty]

\* the name of an identified struct type
getStructName(Ty) == Ty

\* typeHash(Ty, DL): one key per structural type
typeHash(Ty) == <<"h", Ty>>

\* typeIdxHash(Ty, DL, Idx) and hashidx_c(Hash, Idx)
hashidx_c(Hash, Idx) == <<Hash, Idx>>
typeIdxHash(Ty, Idx) == hashidx_c(typeHash(Ty), Idx)
typeidx_c(Ty, Idx) == <<Ty, Idx>>

-----------------------------------------------------------------------------
(* The IR facade: values of the analysed module *)

Fn == {"f1", "f2", "f3"}

V0(kind, ty) ==
    [kind |-> kind, ty |-> ty, ops |-> <<>>, srcTy |-> NULL, idx |-> <<>>]
V1(kind, ty, op) ==
    [kind |-> kind, ty |-> ty, ops |-> <<op>>, srcTy |-> NULL, idx |-> <<>>]
GEPv(ty, po, srcTy, idx) ==
    [kind |-> "GEP", ty |-> ty, ops |-> <<po>>, srcTy |-> srcTy, idx |-> idx]
PHIv(ty, incoming) ==
    [kind |-> "PHI", ty |-> ty, ops |-> incoming, srcTy |-> NULL, idx |-> <<>>]

\* GEP indices: an integer is a ConstantInt, -1 stands for a non-constant index
IR ==
    [ f1   |-> V0("Function", "FP"),
      f2   |-> V0("Function", "FP"),
      f3   |-> V0("Function", "FP2"),
      gS   |-> V0("Global", "SP"),
      gO   |-> V0("Global", "OP"),
      gAS  |-> V0("Global", "ASP"),
      aS   |-> V0("Argument", "SP"),
      aO   |-> V0("Argument", "OP"),
      aF   |-> V0("Argument", "FP"),
      aP   |-> V0("Argument", "I8P"),
      aQ   |-> V0("Argument", "FPP"),
      aG   |-> V0("Argument", "FP3"),
      \* &gO->inner
      ei   |-> GEPv("SP", "gO", "O", <<0, 0>>),
      \* &gS->a, &aS->b and their loads
      e0   |-> GEPv("FPP", "gS", "S", <<0, 0>>),
      l0   |-> V1("Load", "FP", "e0"),
      e1   |-> GEPv("FPP", "aS", "S", <<0, 1>>),
      l1   |-> V1("Load", "FP", "e1"),
      \* &gO->inner.b
      en   |-> GEPv("FPP", "gO", "O", <<0, 0, 1>>),
      \* aO->sp->b
      ep   |-> GEPv("SPP", "aO", "O", <<0, 1>>),
      lp   |-> V1("Load", "SP", "ep"),
      ec   |-> GEPv("FPP", "lp", "S", <<0, 1>>),
      lc   |-> V1("Load", "FP", "ec"),
      \* aO->sp read as a function pointer
      bp   |-> V1("BitCast", "FPP", "ep"),
      lq   |-> V1("Load", "FP", "bp"),
      \* a list walk: ph = phi(ph->next, gO); ph->next->inner.b
      ph   |-> PHIv("OP", <<"lo", "gO">>),
      eo   |-> GEPv("OPP", "ph", "O", <<0, 2>>),
      lo   |-> V1("Load", "OP", "eo"),
      ek   |-> GEPv("FPP", "lo", "O", <<0, 0, 1>>),
      lk   |-> V1("Load", "FP", "ek"),
      \* m = malloc(); (S* )m; *(fnptr* )(m + 1)
      m    |-> V0("Call", "I8P"),
      bm   |-> V1("BitCast", "SP", "m"),
      \* further casts of m: (O* )m, (S* )m, (int* )m
      bm2  |-> V1("BitCast", "OP", "m"),
      bm3  |-> V1("BitCast", "SP", "m"),
      bi   |-> V1("BitCast", "I32P", "m"),
      \* m2 = malloc(); (O* )m2
      m2   |-> V0("Call", "I8P"),
      bn   |-> V1("BitCast", "OP", "m2"),
      eb   |-> GEPv("I8P", "m", "I8", <<1>>),
      bb   |-> V1("BitCast", "FPP", "eb"),
      lb   |-> V1("Load", "FP", "bb"),
      \* select and unary operator
      sl   |-> V1("Select", "FPP", "e0"),
      ls   |-> V1("Load", "FP", "sl"),
      un   |-> V1("Unary", "FP", "lb"),
      \* memcpy operands
      cA   |-> V1("BitCast", "I8P", "gAS"),
      cO   |-> V1("BitCast", "I8P", "ep"),
      \* memcpy(&g2, &gS, sizeof(S)) and g2.a
      g2   |-> V0("Global", "S2P"),
      c2   |-> V1("BitCast", "I8P", "g2"),
      cS   |-> V1("BitCast", "I8P", "gS"),
      e2   |-> GEPv("FPP", "g2", "S2", <<0, 0>>),
      l2   |-> V1("Load", "FP", "e2"),
      \* the virtual table gV: gV[1] and gV[i] called as functions
      gV   |-> V0("Global", "AVP"),
      ev   |-> GEPv("I8PP", "gV", "AV", <<0, 1>>),
      lv   |-> V1("Load", "I8P", "ev"),
      bv   |-> V1("BitCast", "FP", "lv"),
      ew   |-> GEPv("I8PP", "gV", "AV", <<0, -1>>),
      lw   |-> V1("Load", "I8P", "ew"),
      bw   |-> V1("BitCast", "FP", "lw"),
      gT   |-> V0("Global", "TP"),
      \* constants of the initializers
      kS   |-> [V0("ConstantStruct", "S") EXCEPT !.ops = <<"f1", "f2">>],
      kAS  |-> [V0("ConstantArray", "AS") EXCEPT !.ops = <<"kS", "kS">>],
      kSb  |-> [V0("ConstantStruct", "S") EXCEPT !.ops = <<"f2", "f2">>],
      kO   |-> [V0("ConstantStruct", "O") EXCEPT !.ops = <<"kSb", "gS", "gO">>],
      xf1  |-> V1("ConstantBitCast", "I8P", "f1"),
      xf2  |-> V1("ConstantBitCast", "I8P", "f2"),
      xf3  |-> V1("ConstantBitCast", "I8P", "f3"),
      kV   |-> [V0("ConstantArray", "AV") EXCEPT !.ops = <<"xf1", "xf2", "xf3">>],
      pf1  |-> V1("ConstantPtrToInt", "I64", "f1"),
      nF   |-> V0("ConstantPointerNull", "FP"),
      kT   |-> [V0("ConstantStruct", "T") EXCEPT !.ops = <<"pf1", "nF">>],
      \* further functions: variadic fv and fx, three-parameter fw, intrinsic fi
      fv   |-> V0("Function", "FPV"),
      fw   |-> V0("Function", "FPW"),
      fx   |-> V0("Function", "FPX"),
      fi   |-> V0("Function", "FP"),
      \* a variadic function pointer and an inline-asm callee
      aV   |-> V0("Argument", "FPV"),
      ia   |-> V0("InlineAsm", "FP"),
      \* a global whose initializer names the intrinsic: gI = { fi, f1 }
      gI   |-> V0("Global", "SP"),
      kI   |-> [V0("ConstantStruct", "S") EXCEPT !.ops = <<"fi", "f1">>],
      \* a loop that only casts: pq = phi(bq, pq, gS); bq = (S* )pq
      pq   |-> PHIv("SP", <<"bq", "pq", "gS">>),
      bq   |-> V1("BitCast", "SP", "pq") ]

Values == DOMAIN IR

InstKinds == {"GEP", "Load", "BitCast", "PHI", "Select", "Unary", "Call"}

isaInstruction(V) == V # NULL /\ IR[V].kind \in InstKinds
isaCastInst(V) == V # NULL /\ IR[V].kind = "BitCast"

\* the function that holds every instruction of the module
TheFunction == "caller"

\* V->users() that are BitCastOperators
BitCastUsers(V) == {U \in Values : IR[U].kind = "BitCast" /\ IR[U].ops[1] = V}

-----------------------------------------------------------------------------
(* Alias recovery *)

\* recoverBaseType(V): the cast recorded for an opaque byte pointer, or NULL
recoverBaseType(V) ==
    IF isaInstruction(V) /\ V \in DOMAIN AliasStructPtrMap[TheFunction]
    THEN AliasStructPtrMap[TheFunction][V]
    ELSE NULL

-----------------------------------------------------------------------------
(* DataLayout::getGEPIndicesForOffset(ElemTy, Offset) *)

RECURSIVE FieldAt(_, _, _)
\* the struct field (0-based) that holds offset Off, scanning from field K
FieldAt(Ty, Off, K) ==
    IF Off < Types[Types[Ty].elems[K + 1]].size \/ K + 1 = Len(Types[Ty].elems)
    THEN <<K, Off>>
    ELSE FieldAt(Ty, Off - Types[Types[Ty].elems[K + 1]].size, K + 1)

RECURSIVE IndexForOffset(_, _)
\* the indices below the first one, taken while the residual offset is not 0
IndexForOffset(Ty, Off) ==
    IF Off = 0 THEN <<>>
    ELSE IF Types[Ty].kind = "struct" THEN
        LET fo == FieldAt(Ty, Off, 0)
        IN <<fo[1]>> \o IndexForOffset(Types[Ty].elems[fo[1] + 1], fo[2])
    ELSE IF Types[Ty].kind \in {"array", "vector"} THEN
        LET esz == Types[Types[Ty].elems[1]].size
        IN <<Off \div esz>> \o IndexForOffset(Types[Ty].elems[1], Off % esz)
    ELSE <<>>

getGEPIndicesForOffset(BaseTy, Offset) ==
    <<Offset \div Types[BaseTy].size>>
        \o IndexForOffset(BaseTy, Offset % Types[BaseTy].size)

-----------------------------------------------------------------------------
(* The layer walker *)

RECURSIVE GEPIndexWalk(_, _, _, _)
\* the loop over Indices.begin() + 1 .. end(): returns <<TmpTyList, ETy>>
GEPIndexWalk(Indices, K, ETy, TmpTyList) ==
    IF K > Len(Indices) THEN <<TmpTyList, ETy>>
    ELSE
        LET Idx == Indices[K]
            Pushed == IF MLTA_FIELD_INSENSITIVE
                      THEN <<typeidx_c(ETy, 0)>> \o TmpTyList
                      ELSE <<typeidx_c(ETy, Idx)>> \o TmpTyList
            SubTy == IF Types[ETy].kind = "struct"
                     THEN Types[ETy].elems[Idx + 1]
                     ELSE Types[ETy].elems[1]
        IN GEPIndexWalk(Indices, K + 1, SubTy, Pushed)

RECURSIVE Copies(_, _)
Copies(x, n) == IF n = 0 THEN <<>> ELSE <<x>> \o Copies(x, n - 1)

\* the BitCastOperator users whose pointee is the first field of struct ETy
FirstFieldUsers(GEP, ETy) ==
    IF isStructTy(ETy) /\ Len(Types[ETy].elems) > 0
    THEN {U \in BitCastUsers(GEP) :
            /\ isPointerTy(IR[U].ty)
            /\ getPointerElementType(IR[U].ty) = Types[ETy].elems[1]}
    ELSE {}

\* if (!TmpTyList.empty()) { TyList.push_back(each); return true; } return false;
GEPReorder(TyList, TmpTyList) ==
    IF TmpTyList # <<>>
    THEN [ret |-> TRUE, TyList |-> TyList \o TmpTyList]
    ELSE [ret |-> FALSE, TyList |-> TyList]

\* getGEPLayerTypes after its index loop; walked = <<TmpTyList, ETy>>
GEPFirstField(GEP, TyList, walked) ==
    GEPReorder(TyList,
               Copies(typeidx_c(walked[2], 0),
                      Cardinality(FirstFieldUsers(GEP, walked[2])))
                   \o walked[1])

\* getGEPLayerTypes with BV = recoverBaseType(PO)
GEPLayerTypesWith(GEP, TyList, BV) ==
    LET ETy0 == IR[GEP].srcTy
        first == IR[GEP].idx[1]
        ConstNonZero == first # -1 /\ first # 0
        Recovered == ConstNonZero /\ BV # NULL
        \* a non-zero first index into a struct whose address is cast again
        Bail == /\ ConstNonZero /\ BV = NULL /\ isStructTy(ETy0)
                /\ BitCastUsers(GEP) # {}
                /\ SOUND_MODE
        ETy1 == IF Recovered THEN getPointerElementType(IR[BV].ty) ELSE ETy0
        FromOffset == IF Recovered THEN getGEPIndicesForOffset(ETy1, first)
                      ELSE <<>>
        Indices == IF FromOffset = <<>> THEN IR[GEP].idx ELSE FromOffset
    IN IF Bail THEN [ret |-> FALSE, TyList |-> TyList]
       ELSE GEPFirstField(GEP, TyList, GEPIndexWalk(Indices, 2, ETy1, <<>>))

\* getGEPLayerTypes(GEP, TyList): [ret, TyList]
getGEPLayerTypes(GEP, TyList) ==
    GEPLayerTypesWith(GEP, TyList, recoverBaseType(IR[GEP].ops[1]))

\* the GEP case of nextLayerBaseType; g is what getGEPLayerTypes returned
GEPCase(V, g, Vis) ==
    [ret |-> g.ret, TyList |-> g.TyList,
     NextV |-> IF g.ret THEN IR[V].ops[1] ELSE NULL,
     Visited |-> Vis]

RECURSIVE nextLayerBaseType(_, _, _)
RECURSIVE PhiIncoming(_, _, _, _)

\* the loop of the PHI case over the incoming values, from the I-th one
PhiIncoming(PN, I, TyList, Visited) ==
    LET r == nextLayerBaseType(IR[PN].ops[I], TyList, Visited)
    IN IF Len(r.TyList) > Len(TyList) \/ I = Len(IR[PN].ops)
       THEN r
       ELSE PhiIncoming(PN, I + 1, TyList, Visited)

\* nextLayerBaseType(V, TyList, NextV, Visited): [ret, TyList, NextV, Visited]
nextLayerBaseType(V, TyList, Visited) ==
    IF V = NULL \/ IR[V].kind = "Argument" THEN
        [ret |-> FALSE, TyList |-> TyList, NextV |-> V, Visited |-> Visited]
    ELSE IF V \in Visited THEN
        [ret |-> FALSE, TyList |-> TyList, NextV |-> V, Visited |-> Visited]
    ELSE
        LET Vis == Visited \cup {V}
        IN CASE IR[V].kind = "GEP" ->
                    GEPCase(V, getGEPLayerTypes(V, TyList), Vis)
             [] IR[V].kind \in {"Load", "BitCast", "Select", "Unary"} ->
                    nextLayerBaseType(IR[V].ops[1], TyList, Vis)
             [] IR[V].kind = "PHI" ->
                    PhiIncoming(V, 1, TyList, Vis)
             [] OTHER ->
                    [ret |-> FALSE, TyList |-> TyList, NextV |-> NULL,
                     Visited |-> Vis]

RECURSIVE getBaseType(_, _)
RECURSIVE getPhiBaseType(_, _, _)

\* _getPhiBaseType(PN, Visited): the first incoming value with a base type
getPhiBaseType(PN, I, Visited) ==
    IF I > Len(IR[PN].ops) THEN [ty |-> NULL, Visited |-> Visited]
    ELSE
        LET r == getBaseType(IR[PN].ops[I], Visited)
        IN IF r.ty # NULL THEN r ELSE getPhiBaseType(PN, I + 1, r.Visited)

\* getBaseType(V, Visited): [ty, Visited]
getBaseType(V, Visited) ==
    IF V = NULL THEN [ty |-> NULL, Visited |-> Visited]
    ELSE IF V \in Visited THEN [ty |-> NULL, Visited |-> Visited]
    ELSE
        LET Vis == Visited \cup {V}
            Ty == IR[V].ty
        IN IF isCompositeType(Ty) THEN [ty |-> Ty, Visited |-> Vis]
           ELSE IF isPointerTy(Ty) /\ isCompositeType(getPointerElementType(Ty))
           THEN [ty |-> getPointerElementType(Ty), Visited |-> Vis]
           ELSE IF isPointerTy(Ty) /\ recoverBaseType(V) # NULL
           THEN [ty |-> getPointerElementType(IR[recoverBaseType(V)].ty),
                 Visited |-> Vis]
           ELSE CASE IR[V].kind \in {"BitCast", "Select", "Load"} ->
                        getBaseType(IR[V].ops[1], Vis)
                  [] IR[V].kind = "PHI" -> getPhiBaseType(V, 1, Vis)
                  [] OTHER -> [ty |-> NULL, Visited |-> Vis]

RECURSIVE WalkAll(_, _, _)
RECURSIVE WalkNext(_)
\* the body of the while loop: CV = NextV, then the next call
WalkNext(r) == IF r.ret THEN WalkAll(r.NextV, r.TyList, r.Visited) ELSE r

\* while (nextLayerBaseType(CV, TyList, NextV, Visited)) CV = NextV;
WalkAll(CV, TyList, Visited) == WalkNext(nextLayerBaseType(CV, TyList, Visited))

\* getBaseTypeChain after getBaseType returned BTy and the while loop ended in w
BaseTypeChainOf(BTy, w) ==
    LET Chain == (IF BTy # NULL THEN <<typeidx_c(BTy, 0)>> ELSE <<>>) \o w.TyList
        NextV == w.NextV
        Complete ==
            IF NextV = NULL THEN FALSE
            ELSE IF IR[NextV].kind = "Argument" /\ isPointerTy(IR[NextV].ty)
            THEN FALSE
            ELSE ~ \E SI \in stores : SI.kind = "store" /\ SI.po = NextV
    IN [Chain |-> Chain, Complete |-> Complete,
        cap |-> IF Chain # <<>> /\ ~Complete
                THEN {typeHash(Chain[Len(Chain)][1])} ELSE {}]

\* getBaseTypeChain(Chain, V, Complete, DL): [Chain, Complete, cap]
\* cap is what the call inserts into typeCapSet
getBaseTypeChain(V) ==
    BaseTypeChainOf(getBaseType(V, {}).ty, WalkAll(V, <<>>, {}))

-----------------------------------------------------------------------------
(* The analysed module: instructions, call sites, signatures *)

\* the instructions of TheFunction in program order (stores are kept apart)
InstOrder ==
    <<"e0", "l0", "e1", "l1", "ei", "en",
      "ep", "lp", "ec", "lc", "bp", "lq", "ph", "eo", "lo", "ek", "lk",
      "m", "bm", "bm2", "bm3", "bi", "m2", "bn", "eb", "bb", "lb", "sl", "ls",
      "un",
      "cA", "cO", "c2", "cS", "e2", "l2", "ev", "lv", "bv", "ew", "lw", "bw",
      "pq", "bq">>

\* the cast instructions a module may hold or not
OptCasts == {"bm2", "bm3", "bi", "bn"}

\* the instruction I is part of the analysed function
Present(I) == I \notin OptCasts \/ I \in casts

St(po, vo) == [kind |-> "store", po |-> po, vo |-> vo]
Mc(po, vo) == [kind |-> "memcpy", po |-> po, vo |-> vo]

\* the store and llvm.memcpy instructions a module may hold
CandStores ==
    { St("e0", "f1"), St("e1", "f2"), St("en", "f1"), St("bp", "f3"),
      St("aQ", "f1"), St("e0", "l1"), St("e0", "aF"),
      St("e0", "aP"), St("ei", "aP"),
      Mc("cO", "cA") }

\* indirect call sites: called operand and function type of the call
CallSites ==
    [ c0 |-> [callee |-> "ls", fty |-> "FT"],
      cc |-> [callee |-> "lc", fty |-> "FT"],
      cq |-> [callee |-> "lq", fty |-> "FT"],
      ck |-> [callee |-> "lk", fty |-> "FT"],
      cb |-> [callee |-> "un", fty |-> "FT"],
      ca |-> [callee |-> "aF", fty |-> "FT"],
      cg |-> [callee |-> "aG", fty |-> "FT3"],
      cm |-> [callee |-> "l2", fty |-> "FT"],
      cv |-> [callee |-> "bv", fty |-> "FT"],
      cw |-> [callee |-> "bw", fty |-> "FT"],
      cvA |-> [callee |-> "aV", fty |-> "FTV"],
      cvB |-> [callee |-> "aV", fty |-> "FTV"],
      ci |-> [callee |-> "ia", fty |-> "FT"] ]

CI_s == {"c0", "cc", "cq", "ck", "cb", "ca", "cg"}

\* callHash(CI) and funcHash(F): the hash of the function type
callHash(CI) == typeHash(CallSites[CI].fty)
funcHash(F) == typeHash(getPointerElementType(IR[F].ty))

\* the order of std::set<pair<size_t, int>> over the hash values
TypeOrder ==
    <<"AS", "S", "O", "FT", "FT2", "FT3", "FP", "FP2", "FP3", "FPP", "SP",
      "SPP", "OP", "OPP", "ASP", "I8", "I8P", "I8PP", "I32", "I32P", "I64",
      "I64P", "S2", "S2P", "T", "TP", "AV", "AVP", "FTV", "FPV", "FTW",
      "FPW", "FTX", "FPX">>
HashRank(h) == CHOOSE k \in 1..Len(TypeOrder) : TypeOrder[k] = h[2]

-----------------------------------------------------------------------------
(* std::map with operator[]: reading a missing key creates it *)

EmptyMap == <<>>

\* m[h] after the access m[h]
Touch1(mp, h, dflt) ==
    IF h \in DOMAIN mp THEN mp
    ELSE [x \in DOMAIN mp \cup {h} |-> IF x = h THEN dflt ELSE mp[x]]

\* the map after the access m[h][i]
Touch2(mp, h, i) ==
    LET m1 == Touch1(mp, h, EmptyMap)
    IN [m1 EXCEPT ![h] = Touch1(m1[h], i, {})]

\* the map after m[h][i].insert(x)
Insert2(mp, h, i, x) ==
    LET m2 == Touch2(mp, h, i)
    IN [m2 EXCEPT ![h][i] = m2[h][i] \cup {x}]

\* the value m[h][i] reads (empty when the key is created by the read)
Get2(mp, h, i) ==
    IF h \in DOMAIN mp /\ i \in DOMAIN mp[h] THEN mp[h][i] ELSE {}

-----------------------------------------------------------------------------
(* Type-flow collection *)

RECURSIVE stripPointerCasts(_)
\* Value::stripPointerCasts: through bitcasts and all-zero GEPs
stripPointerCasts(V) ==
    IF IR[V].kind = "BitCast" THEN stripPointerCasts(IR[V].ops[1])
    ELSE IF IR[V].kind = "GEP" /\ \A k \in DOMAIN IR[V].idx : IR[V].idx[k] = 0
    THEN stripPointerCasts(IR[V].ops[1])
    ELSE V

\* F->isIntrinsic(): fi is the one intrinsic of the module
isIntrinsic(F) == F = "fi"

RECURSIVE getBaseFunction(_)
getBaseFunction(V) ==
    IF IR[V].kind = "Function" /\ ~isIntrinsic(V) THEN V
    ELSE IF IR[V].kind = "BitCast" THEN getBaseFunction(IR[V].ops[1])
    ELSE NULL

\* getFuncPtrType(V): the pointee when V is a pointer to a function type
getFuncPtrType(V) ==
    IF isPointerTy(IR[V].ty) /\ Types[getPointerElementType(IR[V].ty)].kind = "func"
    THEN getPointerElementType(IR[V].ty)
    ELSE NULL

\* the collector's tables as one record
Tables ==
    [funcs |-> typeIdxFuncsMap, prop |-> typeIdxPropMap,
     cap |-> typeCapSet, escape |-> typeEscapeSet]

RECURSIVE ConfineChain(_, _, _, _)
\* for (auto TI : TyChain) typeIdxFuncsMap[typeHash(TI.first)][TI.second].insert(F)
ConfineChain(funcs, Chain, K, F) ==
    IF K > Len(Chain) THEN funcs
    ELSE ConfineChain(Insert2(funcs, typeHash(Chain[K][1]), Chain[K][2], F),
                      Chain, K + 1, F)

\* the function inserted for the chain while no type is capped
ConfineWith_ChainOnly(T, c, F) ==
    [T EXCEPT !.funcs = ConfineChain(T.funcs, c.Chain, 1, F)]

\* confineTargetFunction after getBaseTypeChain returned c
ConfineWith(T, c, F) ==
    [T EXCEPT
        !.funcs = ConfineChain(T.funcs, c.Chain, 1, F),
        !.cap = T.cap \cup c.cap \cup
                  (IF c.Complete THEN {}
                   ELSE IF c.Chain # <<>>
                        THEN {typeHash(c.Chain[Len(c.Chain)][1])}
                        ELSE {funcHash(F)})]

\* confineTargetFunction(V, F, DL) on tables T
confineTargetFunction(T, V, F) ==
    IF isIntrinsic(F) THEN T ELSE ConfineWith(T, getBaseTypeChain(V), F)

RECURSIVE PropChain(_, _, _, _, _)
PropChain(prop, Chain, K, FromTy, Idx) ==
    IF K > Len(Chain) THEN prop
    ELSE IF typeHash(Chain[K][1]) = typeHash(FromTy) /\ Chain[K][2] = Idx
    THEN PropChain(prop, Chain, K + 1, FromTy, Idx)
    ELSE PropChain(Insert2(prop, typeHash(Chain[K][1]), Chain[K][2],
                           hashidx_c(typeHash(FromTy), Idx)),
                   Chain, K + 1, FromTy, Idx)

\* propagateType that records no edge
PropagateWith_NoEdge(T, c, FromTy, Idx) == [T EXCEPT !.cap = T.cap \cup c.cap]

\* propagateType after getBaseTypeChain returned c
PropagateWith(T, c, FromTy, Idx) ==
    [T EXCEPT !.prop = PropChain(T.prop, c.Chain, 1, FromTy, Idx),
              !.cap = T.cap \cup c.cap]

\* propagateType(ToV, FromTy, DL, Idx) on tables T
propagateType(T, ToV, FromTy, Idx) ==
    PropagateWith(T, getBaseTypeChain(ToV), FromTy, Idx)

\* escapeType after getBaseTypeChain returned c
EscapeWith(T, c) ==
    [T EXCEPT
        !.escape = T.escape \cup
            {typeIdxHash(c.Chain[k][1], c.Chain[k][2]) : k \in DOMAIN c.Chain},
        !.cap = T.cap \cup c.cap]

\* escapeType(V, DL) on tables T
escapeType(T, V) == EscapeWith(T, getBaseTypeChain(V))

\* if (CF) confineTargetFunction(PO, CF)
ConfineStore(T, PO, CF) ==
    IF CF = NULL THEN T ELSE confineTargetFunction(T, PO, CF)

\* the body of typeConfineInFunction's loop for one store instruction
ConfineInst(T, SI) ==
    IF SI.kind # "store" THEN T
    ELSE ConfineStore(T, SI.po, getBaseFunction(stripPointerCasts(SI.vo)))

RECURSIVE PropLayers(_, _, _, _)
PropLayers(T, PO, TyList, K) ==
    IF K > Len(TyList) THEN T
    ELSE PropLayers(propagateType(T, PO, TyList[K][1], TyList[K][2]),
                    PO, TyList, K + 1)

\* the cases of typePropInFunction for a write of VO to PO: nl is the next
\* layer of VO, BTy its base type, FTy its function-pointer type
PropCases(T, PO, VO, nl, BTy, FTy) ==
    IF nl.TyList # <<>> THEN PropLayers(T, PO, nl.TyList, 1)
    ELSE IF BTy # NULL THEN propagateType(T, PO, BTy, -1)
    ELSE IF FTy # NULL
         THEN IF getBaseFunction(VO) = NULL
              THEN propagateType(T, PO, FTy, -1)
              ELSE T
    ELSE IF ~isPointerTy(IR[VO].ty) THEN T
    ELSE escapeType(T, PO)

\* the body of typePropInFunction's loop for one store or memcpy
PropInst(T, I) ==
    PropCases(T, I.po, I.vo,
              nextLayerBaseType(I.vo, <<>>, {}),
              getBaseType(I.vo, {}).ty,
              getFuncPtrType(stripPointerCasts(I.vo)))

RECURSIVE ForEachInst(_, _, _)
\* for (inst_iterator i ...) over the memory-writing instructions in Todo
ForEachInst(T, Todo, pass) ==
    IF Todo = {} THEN T
    ELSE LET I == CHOOSE x \in Todo : TRUE
             T1 == IF pass = "confine" THEN ConfineInst(T, I) ELSE PropInst(T, I)
         IN ForEachInst(T1, Todo \ {I}, pass)

typeConfineInFunction == ForEachInst(Tables, stores, "confine")
typePropInFunction == ForEachInst(Tables, stores, "prop")

RECURSIVE AliasLoop(_, _, _)
\* the instruction loop of collectAliasStructPtr: <<AliasMap, ToErase>>
AliasLoop(AliasMap, ToErase, K) ==
    IF K > Len(InstOrder) THEN <<AliasMap, ToErase>>
    ELSE
        LET CI == InstOrder[K]
            FromV == IR[CI].ops[1]
            Qualifies ==
                /\ Present(CI)
                /\ isaCastInst(CI)
                /\ IR[FromV].kind = "Call"
                /\ IR[FromV].ty = Int8PtrTy
                /\ isPointerTy(IR[CI].ty)
                /\ isCompositeType(getPointerElementType(IR[CI].ty))
        IN IF ~Qualifies THEN AliasLoop(AliasMap, ToErase, K + 1)
           ELSE IF FromV \in DOMAIN AliasMap
                THEN AliasLoop(AliasMap, ToErase \cup {FromV}, K + 1)
           ELSE AliasLoop([x \in DOMAIN AliasMap \cup {FromV} |->
                              IF x = FromV THEN CI ELSE AliasMap[x]],
                          ToErase, K + 1)

\* the erase loop left out
EraseAll_None(r) == r[1]

\* for (auto Erase : ToErase) AliasMap.erase(Erase); r = <<AliasMap, ToErase>>
EraseAll(r) == [x \in DOMAIN r[1] \ r[2] |-> r[1][x]]

\* collectAliasStructPtr(F): the new AliasStructPtrMap[F]
collectAliasStructPtr(F) == EraseAll(AliasLoop(AliasStructPtrMap[F], {}, 1))

-----------------------------------------------------------------------------
(* The resolver *)

\* intersectFuncSets that copies FS1 instead of intersecting
intersectFuncSets_CopiesFS1(FS1, FS2) == FS1

\* intersectFuncSets(FS1, FS2, FS): the new FS
intersectFuncSets(FS1, FS2) == {F \in FS1 : F \in FS2}

RECURSIVE UnionAll(_)
UnionAll(SS) ==
    IF SS = {} THEN {}
    ELSE LET x == CHOOSE y \in SS : TRUE IN x \cup UnionAll(SS \ {x})

\* getTargetsWithLayerType that takes every index for the any-field index
getTargetsWithLayerType_AllFields(funcs, TyHash, Idx, FSin) ==
    [FS |-> FSin \cup UnionAll({Touch1(funcs, TyHash, EmptyMap)[TyHash][i] :
                                  i \in DOMAIN Touch1(funcs, TyHash, EmptyMap)[TyHash]}),
     funcs |-> Touch1(funcs, TyHash, EmptyMap)]

\* getTargetsWithLayerType(TyHash, Idx, FS) on typeIdxFuncsMap = funcs:
\* [FS, funcs]; FSin is what the caller's set holds on entry
getTargetsWithLayerType(funcs, TyHash, Idx, FSin) ==
    IF Idx = -1 THEN
        LET f1 == Touch1(funcs, TyHash, EmptyMap)
        IN [FS |-> FSin \cup UnionAll({f1[TyHash][i] : i \in DOMAIN f1[TyHash]}),
            funcs |-> f1]
    ELSE
        LET f2 == Touch2(Touch2(funcs, TyHash, Idx), TyHash, -1)
        IN [FS |-> f2[TyHash][Idx] \cup f2[TyHash][-1], funcs |-> f2]

RECURSIVE DependentLoop(_, _, _, _)
\* the worklist loop of getDependentTypes: [PropSet, prop]
DependentLoop(prop, LT, Visited, PropSet) ==
    IF LT = {} THEN [PropSet |-> PropSet, prop |-> prop]
    ELSE
        LET TI == CHOOSE x \in LT : TRUE
        IN IF TI \in Visited
           THEN DependentLoop(prop, LT \ {TI}, Visited, PropSet)
           ELSE
               LET p2 == Touch2(Touch2(prop, TI[1], TI[2]), TI[1], -1)
                   New == p2[TI[1]][TI[2]] \cup p2[TI[1]][-1]
               IN DependentLoop(p2, (LT \ {TI}) \cup New, Visited \cup {TI},
                                PropSet \cup New)

\* getDependentTypes without the worklist: the first node's edges only
getDependentTypes_DirectOnly(prop, Ty, Idx) ==
    [PropSet |-> Get2(prop, typeHash(Ty), Idx) \cup Get2(prop, typeHash(Ty), -1),
     prop |-> Touch2(Touch2(prop, typeHash(Ty), Idx), typeHash(Ty), -1)]

\* getDependentTypes(Ty, Idx, PropSet, DL) on typeIdxPropMap = prop
getDependentTypes(prop, Ty, Idx) ==
    DependentLoop(prop, {hashidx_c(typeHash(Ty), Idx)}, {}, {})

\* the least element of a std::set<hashidx_t>
FirstProp(PropSet) ==
    CHOOSE p \in PropSet : \A q \in PropSet :
        \/ HashRank(p[1]) < HashRank(q[1])
        \/ HashRank(p[1]) = HashRank(q[1]) /\ p[2] <= q[2]

RECURSIVE PropTargets(_, _, _, _)
RECURSIVE PropTargetsNext(_, _, _, _)
\* FS1.insert(FS2.begin(), FS2.end()) and the next Prop; g is what
\* getTargetsWithLayerType returned for Prop
PropTargetsNext(PropSet, Prop, FS1, g) ==
    PropTargets(g.funcs, PropSet \ {Prop}, FS1 \cup g.FS, g.FS)

\* for (auto Prop : PropSet) { getTargetsWithLayerType(.., FS2); FS1 += FS2 }
\* returns [FS1, FS2, funcs]
PropTargets(funcs, PropSet, FS1, FS2) ==
    IF PropSet = {} THEN [FS1 |-> FS1, FS2 |-> FS2, funcs |-> funcs]
    ELSE
        LET Prop == FirstProp(PropSet)
        IN PropTargetsNext(PropSet, Prop, FS1,
                           getTargetsWithLayerType(funcs, Prop[1], Prop[2], FS2))

\* the locals after the loop over PropSet; d is what getDependentTypes returned
LayerResult(d, t) ==
    [FS1 |-> t.FS1, FS2 |-> t.FS2, funcs |-> t.funcs, prop |-> d.prop]

\* the cache-miss computation after getTargetsWithLayerType returned g
LayerProps(q, g, d) ==
    LayerResult(d, PropTargets(g.funcs, d.PropSet, g.FS, q.FS2))

\* the candidate set of layer (Ty, Idx) on a cache miss: [FS1, FS2, funcs, prop]
LayerTargets(q, Ty, Idx) ==
    LayerProps(q, getTargetsWithLayerType(q.funcs, typeHash(Ty), Idx, q.FS1),
               getDependentTypes(q.prop, Ty, Idx))

\* what one iteration did: the layer, the incremented counter, the candidate
\* set FS1 it used and FS as it left it
Ev(what, Ty, Idx, LayerNo, FS1, FSout, CV) ==
    [ev |-> what, ty |-> Ty, idx |-> Idx, layerNo |-> LayerNo,
     FS1 |-> FS1, FS |-> FSout, CV |-> CV]

\* the layer check off by one
LayerLimit_OffByOne(LayerNo, Max) == LayerNo > Max

\* the resolver without a layer limit
LayerLimit_Never(LayerNo, Max) == FALSE

\* LayerNo >= MAX_TYPE_LAYER, the check of both loops
LayerLimit(LayerNo, Max) == LayerNo >= Max

\* the escape check without the lookup of the exact (type, index) hash
Escaped_AnyFieldOnly(Ty, Idx) ==
    SOUND_MODE /\ typeIdxHash(Ty, -1) \in typeEscapeSet

\* the SOUND_MODE check of typeEscapeSet on a cache miss
Escaped(Ty, Idx) ==
    SOUND_MODE /\ (typeIdxHash(Ty, Idx) \in typeEscapeSet
                   \/ typeIdxHash(Ty, -1) \in typeEscapeSet)

\* the cap check compiled out
Capped_Never(Ty) == FALSE

\* the SOUND_MODE checks of typeCapSet
Capped(Ty) == SOUND_MODE /\ typeHash(Ty) \in typeCapSet

RECURSIVE InnerLoop(_, _, _, _)
RECURSIVE LayerDone(_, _, _, _, _, _)
RECURSIVE OuterLoop(_)

\* the rest of one iteration once the candidate set is known: t holds FS1 (read
\* from the cache on a hit, computed on a miss) and the maps after the lookup
LayerDone(q, TyList, K, NextV, Hit, t) ==
    LET Ty == TyList[K][1]
        Idx == TyList[K][2]
        LayerNo == q.LayerNo + 1
        TyIdxHash == typeIdxHash(Ty, Idx)
        cache == IF Hit THEN q.cache
                 ELSE [x \in DOMAIN q.cache \cup {TyIdxHash} |->
                         IF x = TyIdxHash THEN t.FS1 ELSE q.cache[x]]
        FS2 == intersectFuncSets(t.FS1, q.FS)
        q1 == [q EXCEPT !.LayerNo = LayerNo,
                        !.FS1 = t.FS1, !.FS2 = FS2, !.FS = FS2,
                        !.funcs = t.funcs, !.prop = t.prop,
                        !.cache = cache, !.CV = NextV,
                        !.log = Append(q.log,
                            Ev(IF Hit THEN "hit" ELSE "miss", Ty, Idx,
                               LayerNo, t.FS1, FS2, NextV))]
    IN IF Capped(Ty)
       THEN [q1 EXCEPT !.cont = FALSE,
                       !.log = Append(q1.log,
                           Ev("cap", Ty, Idx, LayerNo, t.FS1, FS2, NextV))]
       ELSE InnerLoop([q1 EXCEPT !.PrevLayerTy = Ty], TyList, K + 1, NextV)

\* for (auto TyIdx : TyList) of findCalleesWithMLTA, from the K-th element;
\* q holds the locals and the maps; returns q with q.cont = ContinueNextLayer
InnerLoop(q, TyList, K, NextV) ==
    IF K > Len(TyList) THEN q
    ELSE IF LayerLimit(q.LayerNo, q.max) THEN q
    ELSE
        LET Ty == TyList[K][1]
            Idx == TyList[K][2]
            TyIdxHash == typeIdxHash(Ty, Idx)
            Hit == TyIdxHash \in DOMAIN q.cache
        IN IF ~Hit /\ Escaped(Ty, Idx)
           THEN [q EXCEPT !.LayerNo = q.LayerNo + 1,
                          !.log = Append(q.log,
                              Ev("escape", Ty, Idx, q.LayerNo + 1, {}, q.FS, q.CV))]
           ELSE LayerDone(q, TyList, K, NextV, Hit,
                          IF Hit
                          THEN [FS1 |-> q.cache[TyIdxHash], FS2 |-> q.FS2,
                                funcs |-> q.funcs, prop |-> q.prop]
                          ELSE LayerTargets(q, Ty, Idx))

\* ContinueNextLayer after the for loop
OuterNext(q1) == IF q1.cont THEN OuterLoop(q1) ELSE q1

\* the body of the while loop once nextLayerBaseType returned nl
OuterLayers(q, nl) ==
    IF nl.TyList = <<>> THEN q
    ELSE OuterNext(InnerLoop(q, nl.TyList, 1, nl.NextV))

\* while (ContinueNextLayer) of findCalleesWithMLTA
OuterLoop(q) ==
    IF LayerLimit(q.LayerNo, q.max) THEN q
    ELSE IF Capped(q.PrevLayerTy)
    THEN [q EXCEPT !.log = Append(q.log,
                       Ev("captop", q.PrevLayerTy, 0, q.LayerNo, {}, q.FS, q.CV))]
    ELSE OuterLayers(q, nextLayerBaseType(q.CV, <<>>, {}))

\* the locals with FS seeded from the cache instead of sigFuncsMap
InitialLocals_SeedFromCache(CI, cache, Max) ==
    [FS |-> IF callHash(CI) \in DOMAIN cache THEN cache[callHash(CI)] ELSE {},
     FS1 |-> {}, FS2 |-> {},
     PrevLayerTy |-> CallSites[CI].fty,
     CV |-> CallSites[CI].callee,
     LayerNo |-> 1, cont |-> TRUE, max |-> Max,
     funcs |-> typeIdxFuncsMap, prop |-> typeIdxPropMap,
     cache |-> cache, sig |-> sigFuncsMap, log |-> <<>>, ret |-> TRUE]

\* the locals of findCalleesWithMLTA before its loop; Max is MAX_TYPE_LAYER
InitialLocals(CI, cache, Max) ==
    LET sig == Touch1(sigFuncsMap, callHash(CI), {})
    IN [FS |-> sig[callHash(CI)], FS1 |-> {}, FS2 |-> {},
        PrevLayerTy |-> CallSites[CI].fty,
        CV |-> CallSites[CI].callee,
        LayerNo |-> 1, cont |-> TRUE, max |-> Max,
        funcs |-> typeIdxFuncsMap, prop |-> typeIdxPropMap,
        cache |-> cache, sig |-> sig, log |-> <<>>, ret |-> TRUE]

\* the loop entered whatever the first layer holds
FirstLayer_AlwaysWalk(q0) == OuterLoop(q0)

\* if (FS.empty()) return false; otherwise the loop
FirstLayer(q0) == IF q0.FS = {} THEN [q0 EXCEPT !.ret = FALSE] ELSE OuterLoop(q0)

\* findCalleesWithMLTA(CI, FS) built with MAX_TYPE_LAYER = Max
ResolveWith(CI, cache, Max) == FirstLayer(InitialLocals(CI, cache, Max))

\* findCalleesWithMLTA(CI, FS): the locals and maps when it returns
findCalleesWithMLTA(CI, cache) == ResolveWith(CI, cache, MAX_TYPE_LAYER)

-----------------------------------------------------------------------------
(* The analysis as a state machine *)

Passes == <<"sig", "alias", "confine", "prop">>

Init ==
    /\ SOUND_MODE \in BOOLEAN
    /\ MLTA_FIELD_INSENSITIVE = FALSE
    /\ stores \in {ss \in SUBSET CandStores : Cardinality(ss) <= MaxStores}
    /\ casts = {}
    /\ globals = {}
    /\ VTableFuncsMap = EmptyMap
    /\ ret = [op |-> "none"]
    /\ todo = Passes
    /\ sigFuncsMap = EmptyMap
    /\ typeIdxFuncsMap = EmptyMap
    /\ typeIdxPropMap = EmptyMap
    /\ typeCapSet = {}
    /\ typeEscapeSet = {}
    /\ AliasStructPtrMap = [f \in {TheFunction} |-> EmptyMap]
    /\ MatchedFuncsMap = EmptyMap
    /\ lastCI = "none"
    /\ FS = {}
    /\ qlog = <<>>

\* Ctx->AddressTakenFuncs
AddressTakenFuncs == Fn \cup {"fv", "fw", "fx", "fi"}

\* the functions the signature index holds: address-taken and not intrinsic
SigFuncs == {F \in AddressTakenFuncs : ~isIntrinsic(F)}

\* the signature index: every such function under its funcHash
BuildSigFuncs ==
    /\ todo # <<>> /\ Head(todo) = "sig"
    /\ todo' = Tail(todo)
    /\ sigFuncsMap' = [h \in {funcHash(F) : F \in SigFuncs} |->
                          {F \in SigFuncs : funcHash(F) = h}]
    /\ UNCHANGED <<SOUND_MODE, MLTA_FIELD_INSENSITIVE, stores, casts, globals,
                   VTableFuncsMap, ret, typeIdxFuncsMap,
                   typeIdxPropMap, typeCapSet, typeEscapeSet, AliasStructPtrMap,
                   MatchedFuncsMap, lastCI, FS, qlog>>

CollectAlias ==
    /\ todo # <<>> /\ Head(todo) = "alias"
    /\ todo' = Tail(todo)
    /\ AliasStructPtrMap' =
          [AliasStructPtrMap EXCEPT ![TheFunction] = collectAliasStructPtr(TheFunction)]
    /\ UNCHANGED <<SOUND_MODE, MLTA_FIELD_INSENSITIVE, stores, casts, globals,
                   VTableFuncsMap, ret, sigFuncsMap,
                   typeIdxFuncsMap, typeIdxPropMap, typeCapSet, typeEscapeSet,
                   MatchedFuncsMap, lastCI, FS, qlog>>

SetTables(T) ==
    /\ typeIdxFuncsMap' = T.funcs
    /\ typeIdxPropMap' = T.prop
    /\ typeCapSet' = T.cap
    /\ typeEscapeSet' = T.escape

TypeConfine ==
    /\ todo # <<>> /\ Head(todo) = "confine"
    /\ todo' = Tail(todo)
    /\ SetTables(typeConfineInFunction)
    /\ UNCHANGED <<SOUND_MODE, MLTA_FIELD_INSENSITIVE, stores, casts, globals,
                   VTableFuncsMap, ret, sigFuncsMap,
                   AliasStructPtrMap, MatchedFuncsMap, lastCI, FS, qlog>>

TypeProp ==
    /\ todo # <<>> /\ Head(todo) = "prop"
    /\ todo' = Tail(todo)
    /\ SetTables(typePropInFunction)
    /\ UNCHANGED <<SOUND_MODE, MLTA_FIELD_INSENSITIVE, stores, casts, globals,
                   VTableFuncsMap, ret, sigFuncsMap,
                   AliasStructPtrMap, MatchedFuncsMap, lastCI, FS, qlog>>

\* what a call of findCalleesWithMLTA leaves behind when it returns q
Returned(CI, q) ==
    /\ lastCI' = CI
    /\ FS' = q.FS
    /\ qlog' = q.log
    /\ MatchedFuncsMap' = q.cache
    /\ sigFuncsMap' = q.sig
    /\ typeIdxFuncsMap' = q.funcs
    /\ typeIdxPropMap' = q.prop

\* one call of findCalleesWithMLTA, after collection
Query ==
    /\ todo = <<>>
    /\ \E CI \in CI_s : Returned(CI, findCalleesWithMLTA(CI, MatchedFuncsMap))
    /\ UNCHANGED <<SOUND_MODE, MLTA_FIELD_INSENSITIVE, stores, casts, globals,
                   VTableFuncsMap, ret, todo, typeCapSet,
                   typeEscapeSet, AliasStructPtrMap>>

Next == BuildSigFuncs \/ CollectAlias \/ TypeConfine \/ TypeProp \/ Query

Spec == Init /\ [][Next]_vars

-----------------------------------------------------------------------------
(* Properties of the resolver *)

\* a query has returned
Queried == lastCI # "none"

\* sigFuncsMap[callHash(CI)], the layer-1 set
Seed(CI) ==
    IF callHash(CI) \in DOMAIN sigFuncsMap THEN sigFuncsMap[callHash(CI)] ELSE {}

\* the iterations of the last query that intersected a layer into FS
LayerEvents == {k \in DOMAIN qlog : qlog[k].ev \in {"hit", "miss"}}

\* FS as the last query held it before its k-th logged step
FSBefore(k) ==
    LET prev == {j \in LayerEvents : j < k}
    IN IF prev = {} THEN Seed(lastCI)
       ELSE qlog[CHOOSE j \in prev : \A i \in prev : i <= j].FS

\* the candidate set of (Ty, Idx) recomputed from the tables alone
FreshTargets(Ty, Idx) ==
    getTargetsWithLayerType(typeIdxFuncsMap, typeHash(Ty), Idx, {}).FS
    \cup UNION { getTargetsWithLayerType(typeIdxFuncsMap, p[1], p[2], {}).FS :
                 p \in getDependentTypes(typeIdxPropMap, Ty, Idx).PropSet }

\* C1 -- Seed superset: the set a query returns is a subset of
\* sigFuncsMap[callHash(CI)].
C1_SeedSuperset == Queried => FS \subseteq Seed(lastCI)

\* a query that removed some but not all functions of the seed
C1_Witness == Queried /\ FS # {} /\ FS # Seed(lastCI) /\ LayerEvents # {}

\* C2 -- Escape stop: in sound mode, after the resolver has met an escaped
\* layer, no later layer is intersected into FS.
C2_EscapeStopsDescent ==
    (SOUND_MODE /\ Queried) =>
        \A j, k \in DOMAIN qlog :
            (j < k /\ qlog[j].ev = "escape") => qlog[k].ev \notin {"hit", "miss"}

\* C3 -- Escape widening: in sound mode no query intersects FS with the
\* candidate set of a layer whose (type, index) hash is in typeEscapeSet, and
\* the cache holds no entry for such a layer (so a hit cannot do it either).
C3_EscapedNotIntersected ==
    (SOUND_MODE /\ Queried) =>
        /\ \A k \in LayerEvents :
              typeIdxHash(qlog[k].ty, qlog[k].idx) \notin typeEscapeSet
        /\ \A key \in DOMAIN MatchedFuncsMap : key \notin typeEscapeSet

\* a query that met an escaped (T, i) itself, with entries in the cache
C3_Witness ==
    /\ SOUND_MODE /\ Queried
    /\ MatchedFuncsMap # EmptyMap
    /\ \E k \in DOMAIN qlog :
          /\ qlog[k].ev = "escape"
          /\ typeIdxHash(qlog[k].ty, qlog[k].idx) \in typeEscapeSet

\* C4 -- Cache coherence: every entry of MatchedFuncsMap equals the candidate
\* set recomputed from the tables alone.
C4_CacheCoherent ==
    \A key \in DOMAIN MatchedFuncsMap :
        MatchedFuncsMap[key] = FreshTargets(key[1][2], key[2])

\* C5 -- Query order independence: the set a query returns equals the set
\* the same query returns when it runs first, with an empty cache.
C5_OrderIndependent ==
    Queried => FS = findCalleesWithMLTA(lastCI, EmptyMap).FS

\* the layers of the last query whose struct type is in typeCapSet
CappedLayers ==
    {k \in LayerEvents :
        isStructTy(qlog[k].ty) /\ typeHash(qlog[k].ty) \in typeCapSet}

C7_CapStops ==
    (SOUND_MODE /\ Queried) =>
        /\ \A j, k \in LayerEvents :
              j < k => typeHash(qlog[j].ty) \notin typeCapSet
        /\ typeHash(CallSites[lastCI].fty) \in typeCapSet => LayerEvents = {}

\* a query stopped by a capped layer although the walker had more layers
C7_Witness ==
    /\ SOUND_MODE /\ Queried /\ qlog # <<>>
    /\ qlog[Len(qlog)].ev = "cap"
    /\ nextLayerBaseType(qlog[Len(qlog)].CV, <<>>, {}).TyList # <<>>

\* the walker yields no layer for the called operand of CI
NoLayer(CI) == nextLayerBaseType(CallSites[CI].callee, <<>>, {}).TyList = <<>>

\* C8 -- Degrade to signature match: a query whose called operand yields no
\* layer returns exactly sigFuncsMap[callHash(CI)].
C8_DegradeToSignature == (Queried /\ NoLayer(lastCI)) => FS = Seed(lastCI)

\* such a query over filled tables and a filled cache
C8_Witness ==
    /\ Queried /\ NoLayer(lastCI) /\ FS # {}
    /\ MatchedFuncsMap # EmptyMap /\ typeIdxFuncsMap # EmptyMap

\* C9 -- Layer monotonicity: with the same tables and an empty cache, the
\* result with MAX_TYPE_LAYER = k + 1 is a subset of the result with k.
C9_LayerMonotone ==
    Queried =>
        \A k \in 1..MAX_TYPE_LAYER :
            ResolveWith(lastCI, EmptyMap, k + 1).FS
                \subseteq ResolveWith(lastCI, EmptyMap, k).FS

\* one more layer removed a function
C9_Witness ==
    /\ Queried
    /\ \E k \in 1..MAX_TYPE_LAYER :
          /\ ResolveWith(lastCI, EmptyMap, k + 1).FS # ResolveWith(lastCI, EmptyMap, k).FS
          /\ ResolveWith(lastCI, EmptyMap, k + 1).FS # {}

\* C10 as claimed -- at most MAX_TYPE_LAYER - 2 layers are intersected.
C10_AtMostMaxMinus2 ==
    Queried => Cardinality(LayerEvents) <= MAX_TYPE_LAYER - 2

\* C10 as amended -- the counter starts at 1 and is incremented before each
\* layer; a layer is processed only if the counter before the increment is
\* below MAX_TYPE_LAYER, so at most MAX_TYPE_LAYER - 1 layers are intersected.
C10_LayerBound ==
    Queried =>
        /\ \A k \in DOMAIN qlog :
              qlog[k].ev \in {"hit", "miss", "escape"} =>
                  /\ qlog[k].layerNo = k + 1
                  /\ qlog[k].layerNo - 1 < MAX_TYPE_LAYER
        /\ Cardinality(LayerEvents) <= MAX_TYPE_LAYER - 1

\* a query that intersected MAX_TYPE_LAYER - 1 layers
C10_Witness == Queried /\ Cardinality(LayerEvents) = MAX_TYPE_LAYER - 1

-----------------------------------------------------------------------------
(* Properties of the collected tables *)

\* C11 -- Tables frozen after collection: once the collection passes are
\* done, no step (a query) changes sigFuncsMap, typeIdxFuncsMap,
\* typeIdxPropMap, typeCapSet, typeEscapeSet or VTableFuncsMap, not even by
\* adding a key with an empty value.
C11_TablesFrozen ==
    [][todo = <<>> =>
         UNCHANGED <<sigFuncsMap, typeIdxFuncsMap, typeIdxPropMap, typeCapSet,
                     typeEscapeSet, VTableFuncsMap>>]_vars

-----------------------------------------------------------------------------
(* getDependentTypes over arbitrary contents of typeIdxPropMap *)

MaxPropEdges == 3

\* the nodes (type hash, index) of the graphs and the edges between them
PropNodes == {hashidx_c(typeHash(Ty), Idx) : Ty \in {"S", "O"}, Idx \in {-1, 0}}
\* (propagateType records no edge from a node to itself)
PropEdges == {e \in PropNodes \X PropNodes : e[1] # e[2]}

\* typeIdxPropMap after typeIdxPropMap[e[1][1]][e[1][2]].insert(e[2]) for
\* every e of E
MapOfEdges(E) ==
    [h \in {e[1][1] : e \in E} |->
        [i \in {e[1][2] : e \in {x \in E : x[1][1] = h}} |->
            {e[2] : e \in {x \in E : x[1] = hashidx_c(h, i)}}]]

PropGraphs ==
    {MapOfEdges({s[k] : k \in DOMAIN s}) :
        s \in UNION {[1..n -> PropEdges] : n \in 0..MaxPropEdges}}

InitProp ==
    /\ SOUND_MODE = FALSE
    /\ MLTA_FIELD_INSENSITIVE = FALSE
    /\ stores = {}
    /\ casts = {}
    /\ globals = {}
    /\ todo = <<>>
    /\ sigFuncsMap = EmptyMap
    /\ typeIdxFuncsMap = EmptyMap
    /\ typeIdxPropMap \in PropGraphs
    /\ typeCapSet = {}
    /\ typeEscapeSet = {}
    /\ AliasStructPtrMap = EmptyMap
    /\ VTableFuncsMap = EmptyMap
    /\ MatchedFuncsMap = EmptyMap
    /\ lastCI = "none"
    /\ FS = {}
    /\ qlog = <<>>
    /\ ret = [op |-> "none"]

\* the tables and ret after getDependentTypes(Ty, Idx, PropSet, DL) returned d
DependentReturned(Ty, Idx, d) ==
    /\ typeIdxPropMap' = d.prop
    /\ ret' = [op |-> "getDependentTypes", Ty |-> Ty, Idx |-> Idx,
               PropSet |-> d.PropSet]

\* one call of getDependentTypes with an empty PropSet
DependentTypes ==
    /\ \E Ty \in {"S", "O"}, Idx \in {-1, 0} :
          DependentReturned(Ty, Idx, getDependentTypes(typeIdxPropMap, Ty, Idx))
    /\ UNCHANGED <<SOUND_MODE, MLTA_FIELD_INSENSITIVE, stores, casts, globals,
                   todo, sigFuncsMap, typeIdxFuncsMap, typeCapSet,
                   typeEscapeSet, AliasStructPtrMap, VTableFuncsMap,
                   MatchedFuncsMap, lastCI, FS, qlog>>

NextProp == DependentTypes

SpecProp == InitProp /\ [][NextProp]_vars

\* the nodes one edge away from n: the edges of n itself and those of the
\* any-field index of n's type
PropSucc(n) ==
    Get2(typeIdxPropMap, n[1], n[2]) \cup Get2(typeIdxPropMap, n[1], -1)

RECURSIVE PropClosure(_)
\* the least set that holds R and the successors of its members
PropClosure(R) ==
    IF UNION {PropSucc(n) : n \in R} \subseteq R THEN R
    ELSE PropClosure(R \cup UNION {PropSucc(n) : n \in R})

\* the nodes reachable by at least one edge from n
PropReachable(n) == PropClosure(PropSucc(n))

DependentCalled == ret.op = "getDependentTypes"

\* C14 -- Propagation closure: the PropSet getDependentTypes(T, i) returns is
\* exactly the set of nodes reachable by at least one edge from
\* (typeHash(T), i), following from each node (h, j) the edges of
\* typeIdxPropMap[h][j] and of typeIdxPropMap[h][-1]; cyclic graphs included.
C14_PropagationClosure ==
    DependentCalled =>
        ret.PropSet = PropReachable(hashidx_c(typeHash(ret.Ty), ret.Idx))

\* a call on a cyclic graph: the start node is reachable from itself through
\* another node, one of the edges of the cycle is an any-field edge of a
\* type entered at another index, and a node two edges away is returned
C14_Witness ==
    /\ DependentCalled
    /\ ret.Idx # -1
    /\ hashidx_c(typeHash(ret.Ty), ret.Idx) \in ret.PropSet
    /\ Get2(typeIdxPropMap, typeHash(ret.Ty), ret.Idx) = {}
    /\ Get2(typeIdxPropMap, typeHash(ret.Ty), -1) # {}
    /\ ret.PropSet # PropSucc(hashidx_c(typeHash(ret.Ty), ret.Idx))

-----------------------------------------------------------------------------
(* fuzzyTypeMatch over pairs of types *)

RECURSIVE PeelPointers(_, _)
\* while (Ty1->isPointerTy() && Ty2->isPointerTy()) peel one level of both
PeelPointers(Ty1, Ty2) ==
    IF isPointerTy(Ty1) /\ isPointerTy(Ty2)
    THEN PeelPointers(getPointerElementType(Ty1), getPointerElementType(Ty2))
    ELSE <<Ty1, Ty2>>

\* the checks after the peel loop with the wildcard tested for Ty1 only
FuzzyPeeled_FirstSideOnly(Ty1, Ty2, M1, M2) ==
    \/ isStructTy(Ty1) /\ isStructTy(Ty2)
         /\ getStructName(Ty1) = getStructName(Ty2)
    \/ isIntegerTy(Ty1) /\ isIntegerTy(Ty2)
         /\ getIntegerBitWidth(Ty1) = getIntegerBitWidth(Ty2)
    \/ Ty1 = Int8PtrTy /\ (isPointerTy(Ty2) \/ Ty2 = IntPtrTy(M2))

\* the checks of fuzzyTypeMatch after the peel loop left (Ty1, Ty2)
FuzzyPeeled(Ty1, Ty2, M1, M2) ==
    \/ isStructTy(Ty1) /\ isStructTy(Ty2)
         /\ getStructName(Ty1) = getStructName(Ty2)
    \/ isIntegerTy(Ty1) /\ isIntegerTy(Ty2)
         /\ getIntegerBitWidth(Ty1) = getIntegerBitWidth(Ty2)
    \/ Ty1 = Int8PtrTy /\ (isPointerTy(Ty2) \/ Ty2 = IntPtrTy(M2))
    \/ Ty2 = Int8PtrTy /\ (isPointerTy(Ty1) \/ Ty1 = IntPtrTy(M2))

\* fuzzyTypeMatch(Ty1, Ty2, M1, M2); the types of the model belong to one
\* LLVMContext, so Int8PtrTy[M] is the same type for every module M
fuzzyTypeMatch(Ty1, Ty2, M1, M2) ==
    \/ Ty1 = Ty2
    \/ FuzzyPeeled(PeelPointers(Ty1, Ty2)[1], PeelPointers(Ty1, Ty2)[2], M1, M2)

\* the types of arguments and return values
FuzzyTypes == {Ty \in TypeIds : Types[Ty].kind # "func"}

InitFuzzy ==
    /\ SOUND_MODE = FALSE
    /\ MLTA_FIELD_INSENSITIVE = FALSE
    /\ stores = {}
    /\ casts = {}
    /\ globals = {}
    /\ todo = <<>>
    /\ sigFuncsMap = EmptyMap
    /\ typeIdxFuncsMap = EmptyMap
    /\ typeIdxPropMap = EmptyMap
    /\ typeCapSet = {}
    /\ typeEscapeSet = {}
    /\ AliasStructPtrMap = EmptyMap
    /\ VTableFuncsMap = EmptyMap
    /\ MatchedFuncsMap = EmptyMap
    /\ lastCI = "none"
    /\ FS = {}
    /\ qlog = <<>>
    /\ ret = [op |-> "none"]

\* one call of fuzzyTypeMatch
FuzzyMatch ==
    /\ \E Ty1 \in FuzzyTypes, Ty2 \in FuzzyTypes, M1 \in Modules, M2 \in Modules :
          ret' = [op |-> "fuzzyTypeMatch", Ty1 |-> Ty1, Ty2 |-> Ty2,
                  M1 |-> M1, M2 |-> M2,
                  r |-> fuzzyTypeMatch(Ty1, Ty2, M1, M2)]
    /\ UNCHANGED <<SOUND_MODE, MLTA_FIELD_INSENSITIVE, stores, casts, globals,
                   todo, sigFuncsMap, typeIdxFuncsMap, typeIdxPropMap,
                   typeCapSet, typeEscapeSet, AliasStructPtrMap,
                   VTableFuncsMap, MatchedFuncsMap, lastCI, FS, qlog>>

NextFuzzy == FuzzyMatch

SpecFuzzy == InitFuzzy /\ [][NextFuzzy]_vars

\* C20 -- Fuzzy-match wildcard: fuzzyTypeMatch returns true whenever one side
\* is the byte-pointer type i8* and the other side is any pointer type or the
\* integer-pointer type.
C20_BytePointerWildcard ==
    (/\ ret.op = "fuzzyTypeMatch"
     /\ \/ ret.Ty1 = Int8PtrTy
             /\ (isPointerTy(ret.Ty2) \/ ret.Ty2 = IntPtrTy(ret.M2))
        \/ ret.Ty2 = Int8PtrTy
             /\ (isPointerTy(ret.Ty1) \/ ret.Ty1 = IntPtrTy(ret.M2)))
    => ret.r

-----------------------------------------------------------------------------
(* Confinement in the initializers of global variables *)

\* the initializers the global variables of a module may have
Initializer ==
    [gS |-> "kS", gAS |-> "kAS", gO |-> "kO", gV |-> "kV", gT |-> "kT",
     gI |-> "kI"]

\* the global variables in the order of the module's list
GlobalOrder == <<"gS", "gAS", "gO", "gV", "gT", "gI">>

getInitializer(GV) == Initializer[GV]

isaConstantAggregate(V) == IR[V].kind \in {"ConstantStruct", "ConstantArray"}
isaFunction(V) == IR[V].kind = "Function"
isaBitCastOperator(V) == IR[V].kind \in {"BitCast", "ConstantBitCast"}
isaPtrToIntOperator(V) == IR[V].kind = "ConstantPtrToInt"

\* the operands of a User: a global variable has its initializer as operand
Operands(U) ==
    IF IR[U].kind = "Global"
    THEN IF U \in globals THEN <<getInitializer(U)>> ELSE <<>>
    ELSE IR[U].ops

\* the index of a container that keeps the operand number in every mode
InitIdx_FieldSensitive(i) == i

\* the index typeIdxFuncsMap is given for operand number i of a container
InitIdx(i) == IF MLTA_FIELD_INSENSITIVE THEN 0 ELSE i

RECURSIVE ClimbContainers(_, _, _, _, _)
\* while (ContainersMap.find(CV) != end): insert F for the container of CV
\* and go on from the container, unless it was met before
ClimbContainers(funcs, cont, CV, Vis, F) ==
    IF CV \notin DOMAIN cont THEN funcs
    ELSE IF cont[CV][1] \in Vis \cup {CV}
    THEN Insert2(funcs, typeHash(IR[cont[CV][1]].ty), InitIdx(cont[CV][2]), F)
    ELSE ClimbContainers(
             Insert2(funcs, typeHash(IR[cont[CV][1]].ty), InitIdx(cont[CV][2]), F),
             cont, cont[CV][1], Vis \cup {CV}, F)

\* the found function added to all containers without the intrinsic test
FoundFunction_AnyFunction(w, O, F) ==
    [w EXCEPT !.funcs = ClimbContainers(w.funcs, w.cont, O, {}, F)]

\* if (FoundF && !FoundF->isIntrinsic()): add the function to all containers
FoundFunction(w, O, F) ==
    IF isIntrinsic(F) THEN w
    ELSE [w EXCEPT !.funcs = ClimbContainers(w.funcs, w.cont, O, {}, F)]

\* LU.push_back(OU)
PushUser(w, OU) == [w EXCEPT !.LU = Append(w.LU, OU)]

\* the virtual-table record that is never written
VTableInsert_Never(w, GV, U, CF) == w

\* VTableFuncsMap[GV].insert(CF) when the container U is not a struct
VTableInsert(w, GV, U, CF) ==
    IF isStructTy(IR[U].ty) THEN w
    ELSE [w EXCEPT !.vt = [x \in DOMAIN w.vt \cup {GV} |->
                              IF x # GV THEN w.vt[x]
                              ELSE IF GV \in DOMAIN w.vt THEN w.vt[GV] \cup {CF}
                              ELSE {CF}]]

\* a pointer operand that is a global variable of struct type caps the type
CapPointee(w, O) ==
    IF IR[O].kind = "Global" /\ isStructTy(getPointerElementType(IR[O].ty))
    THEN [w EXCEPT !.cap = w.cap \cup {typeHash(getPointerElementType(IR[O].ty))}]
    ELSE w

\* the cases of one operand O of U, after ContainersMap[O] was written
OperandCases(w, GV, U, O) ==
    IF isaFunction(O) THEN FoundFunction(w, O, O)
    ELSE IF isCompositeType(IR[O].ty) THEN PushUser(w, O)
    ELSE IF isaPtrToIntOperator(O)
    THEN IF isaFunction(IR[O].ops[1]) THEN FoundFunction(w, O, IR[O].ops[1])
         ELSE PushUser(w, IR[O].ops[1])
    ELSE IF isaBitCastOperator(O)
    THEN IF isaFunction(IR[O].ops[1])
         THEN FoundFunction(VTableInsert(w, GV, U, IR[O].ops[1]), O, IR[O].ops[1])
         ELSE PushUser(w, IR[O].ops[1])
    ELSE IF isPointerTy(IR[O].ty)
    THEN IF IR[O].kind = "ConstantPointerNull" THEN w
         ELSE CapPointee(PushUser(w, O), O)
    ELSE w

\* ContainersMap[O] = make_pair(U, operand number), then the cases of O
InitOperand(w, GV, U, k) ==
    OperandCases([w EXCEPT !.cont = [x \in DOMAIN w.cont \cup {Operands(U)[k]} |->
                                        IF x = Operands(U)[k] THEN <<U, k - 1>>
                                        ELSE w.cont[x]]],
                 GV, U, Operands(U)[k])

RECURSIVE InitOperands(_, _, _, _)
\* for (oi = U->op_begin(); oi != oe; ++oi)
InitOperands(w, GV, U, k) ==
    IF k > Len(Operands(U)) THEN w
    ELSE InitOperands(InitOperand(w, GV, U, k), GV, U, k + 1)

RECURSIVE InitWalk(_, _)
\* while (!LU.empty()): w holds funcs, cap, vt, cont (ContainersMap), LU, Visited
InitWalk(w, GV) ==
    IF w.LU = <<>> THEN w
    ELSE IF Head(w.LU) \in w.Visited
    THEN InitWalk([w EXCEPT !.LU = Tail(w.LU)], GV)
    ELSE IF isStructTy(IR[Head(w.LU)].ty) /\ Len(Operands(Head(w.LU))) = 0
    THEN InitWalk([w EXCEPT !.LU = Tail(w.LU),
                            !.Visited = w.Visited \cup {Head(w.LU)}], GV)
    ELSE InitWalk(InitOperands([w EXCEPT !.LU = Tail(w.LU),
                                         !.Visited = w.Visited \cup {Head(w.LU)}],
                               GV, Head(w.LU), 1), GV)

\* typeConfineInInitializer(GV, DL) on the tables of w
typeConfineInInitializer(w, GV) ==
    IF ~isaConstantAggregate(getInitializer(GV)) THEN w
    ELSE InitWalk([w EXCEPT !.cont = EmptyMap, !.LU = <<getInitializer(GV)>>,
                            !.Visited = {}], GV)

RECURSIVE ForEachGlobal(_, _)
\* typeConfineInInitializer for every global variable that has an initializer
ForEachGlobal(w, K) ==
    IF K > Len(GlobalOrder) THEN w
    ELSE IF GlobalOrder[K] \notin globals THEN ForEachGlobal(w, K + 1)
    ELSE ForEachGlobal(typeConfineInInitializer(w, GlobalOrder[K]), K + 1)

\* the tables as the initializer walk holds them
InitTables ==
    [funcs |-> typeIdxFuncsMap, cap |-> typeCapSet, vt |-> VTableFuncsMap,
     cont |-> EmptyMap, LU |-> <<>>, Visited |-> {}]


-----------------------------------------------------------------------------
(* Collection over a module with initializers, then queries *)

\* the store and llvm.memcpy instructions of the module with initializers
\* the global variables of the module with initializers
GlobalsG == {"gS", "gAS", "gO", "gV", "gT"}

StoresG == {Mc("c2", "cS"), St("e1", "f2"), St("bb", "f1")}

\* the call sites of the module with initializers
CI_G == {"c0", "cm", "cv", "cw"}

PassesG == <<"sig", "init", "alias", "confine", "prop">>

InitG ==
    /\ SOUND_MODE \in BOOLEAN
    /\ MLTA_FIELD_INSENSITIVE \in BOOLEAN
    /\ stores \in {ss \in SUBSET StoresG : Cardinality(ss) <= MaxStores}
    /\ casts = {}
    /\ globals \in SUBSET GlobalsG
    /\ todo = PassesG
    /\ sigFuncsMap = EmptyMap
    /\ typeIdxFuncsMap = EmptyMap
    /\ typeIdxPropMap = EmptyMap
    /\ typeCapSet = {}
    /\ typeEscapeSet = {}
    /\ AliasStructPtrMap = [f \in {TheFunction} |-> EmptyMap]
    /\ VTableFuncsMap = EmptyMap
    /\ MatchedFuncsMap = EmptyMap
    /\ lastCI = "none"
    /\ FS = {}
    /\ qlog = <<>>
    /\ ret = [op |-> "none"]

\* the tables after the initializer walks returned w
InitReturned(w) ==
    /\ typeIdxFuncsMap' = w.funcs
    /\ typeCapSet' = w.cap
    /\ VTableFuncsMap' = w.vt

\* typeConfineInInitializer on every global variable with an initializer
TypeConfineInit ==
    /\ todo # <<>> /\ Head(todo) = "init"
    /\ todo' = Tail(todo)
    /\ InitReturned(ForEachGlobal(InitTables, 1))
    /\ UNCHANGED <<SOUND_MODE, MLTA_FIELD_INSENSITIVE, stores, casts, globals,
                   sigFuncsMap, typeIdxPropMap, typeEscapeSet,
                   AliasStructPtrMap, MatchedFuncsMap, lastCI, FS, qlog, ret>>

\* one call of findCalleesWithMLTA from the module with initializers
QueryG ==
    /\ todo = <<>>
    /\ \E CI \in CI_G : Returned(CI, findCalleesWithMLTA(CI, MatchedFuncsMap))
    /\ UNCHANGED <<SOUND_MODE, MLTA_FIELD_INSENSITIVE, stores, casts, globals,
                   VTableFuncsMap, ret, todo, typeCapSet,
                   typeEscapeSet, AliasStructPtrMap>>

NextG ==
    \/ BuildSigFuncs \/ TypeConfineInit \/ CollectAlias \/ TypeConfine
    \/ TypeProp \/ QueryG

SpecG == InitG /\ [][NextG]_vars

-----------------------------------------------------------------------------
(* Properties of the collection over initializers *)

\* every collection pass has run
Collected == todo = <<>>

\* the function an operand O stands for: O itself, or the function under a
\* PtrToInt or a BitCast; NULL otherwise
OperandFunction(O) ==
    IF isaFunction(O) THEN O
    ELSE IF (isaPtrToIntOperator(O) \/ isaBitCastOperator(O))
             /\ isaFunction(IR[O].ops[1])
    THEN IR[O].ops[1]
    ELSE NULL

\* a path is a sequence <<U_1, k_1>>, ..., <<U_n, k_n>>: U_1 is an initializer
\* and U_(j+1) is (under a PtrToInt or BitCast) operand k_j of U_j
LastOperand(p) == Operands(p[Len(p)][1])[p[Len(p)][2]]

\* the User the walk goes on with from the last operand of p
NextUser(p) ==
    IF isaPtrToIntOperator(LastOperand(p)) \/ isaBitCastOperator(LastOperand(p))
    THEN IR[LastOperand(p)].ops[1]
    ELSE LastOperand(p)

\* the paths one operand longer than p, none if p would meet a User again
ExtendPath(p) ==
    IF NextUser(p) \in {p[j][1] : j \in DOMAIN p} THEN {}
    ELSE {Append(p, <<NextUser(p), k>>) : k \in 1..Len(Operands(NextUser(p)))}

RECURSIVE PathClosure(_)
PathClosure(P) ==
    IF UNION {ExtendPath(p) : p \in P} \subseteq P THEN P
    ELSE PathClosure(P \cup UNION {ExtendPath(p) : p \in P})

\* every path from the initializer of GV
InitPaths(GV) ==
    PathClosure({<< <<getInitializer(GV), k>> >> :
                    k \in 1..Len(Operands(getInitializer(GV)))})

\* F is in the slot of every container along p
ConfinedAlong(p, F) ==
    \A j \in DOMAIN p :
        F \in Get2(typeIdxFuncsMap, typeHash(IR[p[j][1]].ty), InitIdx(p[j][2] - 1))

\* the initializer pass has run
InitializersDone == \A k \in DOMAIN todo : todo[k] # "init"

\* C16 -- Initializer confinement: after typeConfineInInitializer(G), every
\* function that occurs (directly, or under a PtrToInt or BitCast) as operand
\* idx of a constant U reachable in G's initializer is in
\* typeIdxFuncsMap[typeHash(type(U))][idx] and in the slot of every enclosing
\* container up to the initializer, at every position where U occurs.
C16_InitializerConfinement ==
    InitializersDone =>
        \A GV \in globals : \A p \in InitPaths(GV) :
            OperandFunction(LastOperand(p)) # NULL
                => ConfinedAlong(p, OperandFunction(LastOperand(p)))

\* GV has an initializer that is an array of bitcast function pointers
IsVTable(GV) ==
    /\ GV \in globals
    /\ IR[getInitializer(GV)].kind = "ConstantArray"
    /\ \A k \in DOMAIN Operands(getInitializer(GV)) :
          /\ isaBitCastOperator(Operands(getInitializer(GV))[k])
          /\ isaFunction(IR[Operands(getInitializer(GV))[k]].ops[1])

\* the function at position k (from 1) of the virtual table GV
VTableEntry(GV, k) == IR[Operands(getInitializer(GV))[k]].ops[1]

\* the functions of the virtual table GV
VTableFunctions(GV) ==
    {VTableEntry(GV, k) : k \in DOMAIN Operands(getInitializer(GV))}

\* every function of the virtual table GV is in VTableFuncsMap[GV]
VTableRecorded(GV) ==
    GV \in DOMAIN VTableFuncsMap /\ VTableFunctions(GV) \subseteq VTableFuncsMap[GV]

\* typeIdxFuncsMap[typeHash(array type of GV)][i]
VTableSlot(GV, i) ==
    Get2(typeIdxFuncsMap, typeHash(IR[getInitializer(GV)].ty), i)

\* C17 as claimed -- Virtual-table collection: after the initializer pass every
\* function of a virtual table G is in VTableFuncsMap[G] and
\* typeIdxFuncsMap[typeHash(array type)][0] is the set of all its functions.
C17_VTableAllAtZero ==
    InitializersDone =>
        \A GV \in DOMAIN Initializer :
            IsVTable(GV) =>
                /\ VTableRecorded(GV)
                /\ VTableSlot(GV, 0) = VTableFunctions(GV)

\* C17 as amended -- after the initializer pass every function of a virtual
\* table G is in VTableFuncsMap[G], and typeIdxFuncsMap[typeHash(array
\* type)][i] holds the function at position i of the array; index 0 holds all
\* functions of the array in field-insensitive mode only, where every position
\* is recorded under index 0.
C17_VTablePerIndex ==
    InitializersDone =>
        \A GV \in DOMAIN Initializer :
            IsVTable(GV) =>
                /\ VTableRecorded(GV)
                /\ \A k \in DOMAIN Operands(getInitializer(GV)) :
                      VTableSlot(GV, InitIdx(k - 1)) =
                          {VTableEntry(GV, j) :
                              j \in {i \in DOMAIN Operands(getInitializer(GV)) :
                                        InitIdx(i - 1) = InitIdx(k - 1)}}

\* the virtual table gV collected in field-sensitive mode: all of its
\* functions recorded, index 0 holding only the first
C17_Witness ==
    /\ InitializersDone
    /\ IsVTable("gV")
    /\ ~MLTA_FIELD_INSENSITIVE
    /\ VTableFuncsMap["gV"] = {"f1", "f2", "f3"}
    /\ VTableSlot("gV", 0) = {"f1"}
    /\ VTableSlot("gV", 2) = {"f3"}

\* the call sites that call through a load from an element of a virtual
\* table: the called operand is a cast of a load of a GEP into the table
VTableCalls == {"cv", "cw"}
VTableGEP(CI) == IR[IR[CallSites[CI].callee].ops[1]].ops[1]
VTableOf(CI) == IR[VTableGEP(CI)].ops[1]

\* the index of the element: an integer, or -1 for a non-constant index
VTableIndex(CI) == IR[VTableGEP(CI)].idx[2]

\* a query of a call through a virtual table has returned
VTableQueried == Queried /\ lastCI \in VTableCalls /\ IsVTable(VTableOf(lastCI))

\* C18 as claimed -- Virtual-table resolution: a call through a load from
\* G[i] resolves to all functions of the virtual table G that are in the
\* seed, for a constant index as well as for a non-constant one.
C18_ResolvesToWholeTable ==
    VTableQueried =>
        FS = VTableFunctions(VTableOf(lastCI)) \cap Seed(lastCI)

\* C18 as amended -- a call through a load from G[i] resolves to all
\* functions of the virtual table G that are in the seed when the index is
\* not constant or the build is field-insensitive; with a constant index i in
\* field-sensitive mode it resolves to the function at position i of the
\* table, if that function is in the seed.
C18_ResolvesPerIndex ==
    VTableQueried =>
        FS = Seed(lastCI) \cap
             (IF VTableIndex(lastCI) = -1 \/ MLTA_FIELD_INSENSITIVE
              THEN VTableFunctions(VTableOf(lastCI))
              ELSE {VTableEntry(VTableOf(lastCI), VTableIndex(lastCI) + 1)})

\* the call through gV[1] in field-sensitive mode resolved to f2 alone,
\* although f1 is in the table and in the seed
C18_Witness ==
    /\ VTableQueried
    /\ lastCI = "cv"
    /\ ~MLTA_FIELD_INSENSITIVE
    /\ FS = {"f2"}
    /\ "f1" \in VTableFunctions("gV") \cap Seed(lastCI)

\* C19 -- Field-insensitive collapse: in field-insensitive mode, after the
\* initializer pass and the in-function confinement pass, every entry
\* typeIdxFuncsMap[T][i] with i # 0 is empty.
C19_FieldInsensitiveCollapse ==
    MLTA_FIELD_INSENSITIVE =>
        \A h \in DOMAIN typeIdxFuncsMap : \A i \in DOMAIN typeIdxFuncsMap[h] :
            i # 0 => typeIdxFuncsMap[h][i] = {}

\* field-insensitive collection done over a module whose only initializer
\* holds functions at positions other than 0 and that stores f2 into field 1
\* of a struct: all of them are recorded under index 0, and a query has left
\* an empty entry under another index
C19_Witness ==
    /\ MLTA_FIELD_INSENSITIVE
    /\ Collected
    /\ globals = {"gV"}
    /\ St("e1", "f2") \in stores
    /\ Get2(typeIdxFuncsMap, typeHash("S"), 0) = {"f2"}
    /\ Get2(typeIdxFuncsMap, typeHash("AV"), 0) = {"f1", "f2", "f3"}
    /\ \E h \in DOMAIN typeIdxFuncsMap : \E i \in DOMAIN typeIdxFuncsMap[h] : i # 0

\* the memcpy that copies the global gS, of struct type S, over g2, of
\* struct type S2, and the function the initializer of gS holds in field 0
CopyOfS == Mc("c2", "cS")
FirstOfS == IR[getInitializer("gS")].ops[1]

\* the steps of the last query that intersected the layer (S2, 0)
LayersOfS2 == {k \in LayerEvents : qlog[k].ty = "S2" /\ qlog[k].idx = 0}

\* C15 -- Propagation via memcpy: when the initializer of gS confines f1 to
\* (S, 0) and a memcpy copies gS over a destination whose chain holds
\* (S2, 0), a query whose walk reaches (S2, 0) has f1 in the candidate set
\* FS1 of that layer, although f1 is not in typeIdxFuncsMap[S2][0].
C15_PropagationViaMemcpy ==
    (Queried /\ "gS" \in globals /\ CopyOfS \in stores) =>
        \A k \in LayersOfS2 :
            /\ FirstOfS \in qlog[k].FS1
            /\ FirstOfS \notin Get2(typeIdxFuncsMap, typeHash("S2"), 0)

\* a query of the call through g2's field 0 reached (S2, 0) after such a
\* collection and kept f1, and the edge from (S2, 0) is in typeIdxPropMap
C15_Witness ==
    /\ Queried /\ "gS" \in globals /\ CopyOfS \in stores
    /\ lastCI = "cm"
    /\ LayersOfS2 # {}
    /\ FirstOfS \in FS
    /\ Get2(typeIdxPropMap, typeHash("S2"), 0) # {}

-----------------------------------------------------------------------------
(* The collection passes run twice over the same module *)

PassesTwice == PassesG \o Tail(PassesG)

InitTwice ==
    /\ SOUND_MODE \in BOOLEAN
    /\ MLTA_FIELD_INSENSITIVE \in BOOLEAN
    /\ stores \in {ss \in SUBSET StoresG : Cardinality(ss) <= MaxStores}
    /\ casts \in SUBSET OptCasts
    /\ globals \in SUBSET {"gS"}
    /\ todo = PassesTwice
    /\ sigFuncsMap = EmptyMap
    /\ typeIdxFuncsMap = EmptyMap
    /\ typeIdxPropMap = EmptyMap
    /\ typeCapSet = {}
    /\ typeEscapeSet = {}
    /\ AliasStructPtrMap = [f \in {TheFunction} |-> EmptyMap]
    /\ VTableFuncsMap = EmptyMap
    /\ MatchedFuncsMap = EmptyMap
    /\ lastCI = "none"
    /\ FS = {}
    /\ qlog = <<>>
    /\ ret = [op |-> "none"]

NextTwice ==
    BuildSigFuncs \/ TypeConfineInit \/ CollectAlias \/ TypeConfine \/ TypeProp

SpecTwice == InitTwice /\ [][NextTwice]_vars

\* the number of times the pass has run
Runs(pass) ==
    Cardinality({k \in DOMAIN PassesTwice : PassesTwice[k] = pass})
        - Cardinality({k \in DOMAIN todo : todo[k] = pass})

\* the first run of the collection is over and the second is not
SecondRun == todo # <<>> /\ Len(todo) <= Len(Tail(PassesG))

\* C12 -- Collection is idempotent: no step of a second run of the
\* collection passes over the same module changes a table; AliasStructPtrMap
\* and the other tables keep their values of the first run.
C12_CollectionIdempotent ==
    [][SecondRun =>
         UNCHANGED <<typeIdxFuncsMap, typeIdxPropMap, typeCapSet, typeEscapeSet,
                     VTableFuncsMap, AliasStructPtrMap, sigFuncsMap>>]_vars

\* the casts of F that collectAliasStructPtr takes for src
QualifyingCasts(src) ==
    {c \in {InstOrder[k] : k \in DOMAIN InstOrder} :
        /\ Present(c)
        /\ isaCastInst(c)
        /\ IR[c].ops[1] = src
        /\ IR[src].kind = "Call"
        /\ IR[src].ty = Int8PtrTy
        /\ isPointerTy(IR[c].ty)
        /\ isCompositeType(getPointerElementType(IR[c].ty))}

\* src has two qualifying casts to different types
ConflictingCasts(src) ==
    \E c1, c2 \in QualifyingCasts(src) : IR[c1].ty # IR[c2].ty

\* C13 -- Alias map single-valued: after collectAliasStructPtr(F) has run
\* once from an empty map, every key src is a call result of byte-pointer
\* type and maps to one cast of src to a pointer to a composite type, and no
\* src with two conflicting qualifying casts in F is a key.
C13_AliasSingleValued ==
    Runs("alias") = 1 =>
        /\ \A src \in DOMAIN AliasStructPtrMap[TheFunction] :
              AliasStructPtrMap[TheFunction][src] \in QualifyingCasts(src)
        /\ \A src \in Values :
              ConflictingCasts(src) => src \notin DOMAIN AliasStructPtrMap[TheFunction]

\* the first run is done over a function that casts m to S* and to O* and
\* m2 to O* only: m2 is a key, m is not
C13_Witness ==
    /\ Runs("alias") = 1
    /\ {"bm2", "bn"} \subseteq casts
    /\ ConflictingCasts("m")
    /\ DOMAIN AliasStructPtrMap[TheFunction] = {"m2"}
    /\ AliasStructPtrMap[TheFunction]["m2"] = "bn"

-----------------------------------------------------------------------------
(* Signature matching: findCalleesWithType *)

\* the module that holds every function and call of the program
TheModule == "M1"

\* FunctionType: getReturnType(), the parameter types, isVarArg()
FuncTypes ==
    [ FT  |-> [ret |-> "I32", params |-> <<"I8P">>,               vararg |-> FALSE],
      FT2 |-> [ret |-> "I32", params |-> <<"I64">>,               vararg |-> FALSE],
      FT3 |-> [ret |-> "I32", params |-> <<"SP", "SP">>,          vararg |-> FALSE],
      FTV |-> [ret |-> "I32", params |-> <<"I8P">>,               vararg |-> TRUE],
      FTW |-> [ret |-> "I32", params |-> <<"I8P", "I64", "I64">>, vararg |-> FALSE],
      FTX |-> [ret |-> "I32", params |-> <<"I8P", "FP">>,         vararg |-> TRUE] ]

\* F->getFunctionType()
getFunctionType(F) == FuncTypes[getPointerElementType(IR[F].ty)]

\* the actual arguments of a call: those of cvA are p("x", 1L, 2L), every
\* other call passes exactly the parameters of its function type
CallArgs(CI) ==
    IF CI = "cvA" THEN <<"I8P", "I64", "I64">>
    ELSE FuncTypes[CallSites[CI].fty].params

\* CI->isInlineAsm()
isInlineAsm(CI) == IR[CallSites[CI].callee].kind = "InlineAsm"

\* (*AI)->getType() for the k-th step of AI from CB->arg_begin(): the
\* operand after the last argument is the called operand
ActualTy(CI, k) ==
    IF k <= Len(CallArgs(CI)) THEN CallArgs(CI)[k]
    ELSE IR[CallSites[CI].callee].ty

\* the loop over F->arg_begin() .. F->arg_end(): Matched after it
ArgsMatched(F, CI) ==
    \A k \in 1..Len(getFunctionType(F).params) :
        fuzzyTypeMatch(getFunctionType(F).params[k], ActualTy(CI, k),
                       TheModule, TheModule)

\* the loop over AddressTakenFuncs with the arity test applied to variadic
\* functions too
TypeMatched_EqualArity(F, CI) ==
    /\ Len(getFunctionType(F).params) = Len(CallArgs(CI))
    /\ ~isIntrinsic(F)
    /\ \/ callHash(CI) = funcHash(F)
       \/ /\ ArgsMatched(F, CI)
          /\ fuzzyTypeMatch(getFunctionType(F).ret,
                            FuncTypes[CallSites[CI].fty].ret,
                            TheModule, TheModule)

\* one iteration of the loop over AddressTakenFuncs: F is inserted into S
TypeMatched(F, CI) ==
    /\ getFunctionType(F).vararg
          \/ Len(getFunctionType(F).params) = Len(CallArgs(CI))
    /\ ~isIntrinsic(F)
    /\ \/ callHash(CI) = funcHash(F)
       \/ /\ ArgsMatched(F, CI)
          /\ fuzzyTypeMatch(getFunctionType(F).ret,
                            FuncTypes[CallSites[CI].fty].ret,
                            TheModule, TheModule)

\* the key CIH of a call in MatchedFuncsMap: the hash of a call signature
\* is taken to differ from every type-index hash the resolver caches under
CIH(CI) == hashidx_c(callHash(CI), -2)

\* MatchedFuncsMap[CIH] = S
TypeCached(CI, S, cache) ==
    [S |-> S,
     cache |-> [h \in DOMAIN cache \cup {CIH(CI)} |->
                   IF h = CIH(CI) THEN S ELSE cache[h]]]

\* findCalleesWithType(CI, S): S and MatchedFuncsMap when it returns
findCalleesWithType(CI, S, cache) ==
    IF isInlineAsm(CI) THEN [S |-> S, cache |-> cache]
    ELSE IF CIH(CI) \in DOMAIN cache
    THEN [S |-> S \cup cache[CIH(CI)], cache |-> cache]
    ELSE TypeCached(CI, S \cup {F \in AddressTakenFuncs : TypeMatched(F, CI)},
                    cache)

-----------------------------------------------------------------------------
(* The resolvers side by side: queries by signature and by MLTA *)

CI_T == {"c0", "cg", "cvA", "cvB", "ci"}

\* what the output set of a caller of findCalleesWithType holds at the call
SeedSets == {{}, {"f3"}}

\* the store instructions the module may hold
StoresT == {St("e0", "f1"), St("e1", "f2"), St("bb", "f1")}

InitSig ==
    /\ SOUND_MODE \in BOOLEAN
    /\ MLTA_FIELD_INSENSITIVE = FALSE
    /\ stores \in {ss \in SUBSET StoresT : Cardinality(ss) <= MaxStores}
    /\ casts = {}
    /\ globals = {}
    /\ todo = Passes
    /\ sigFuncsMap = EmptyMap
    /\ typeIdxFuncsMap = EmptyMap
    /\ typeIdxPropMap = EmptyMap
    /\ typeCapSet = {}
    /\ typeEscapeSet = {}
    /\ AliasStructPtrMap = [f \in {TheFunction} |-> EmptyMap]
    /\ VTableFuncsMap = EmptyMap
    /\ MatchedFuncsMap = EmptyMap
    /\ lastCI = "none"
    /\ FS = {}
    /\ qlog = <<>>
    /\ ret = [op |-> "none"]

\* what a call of findCalleesWithType leaves behind when it returns r
TypeReturned(CI, S0, r) ==
    /\ ret' = [op |-> "findCalleesWithType", CI |-> CI, S0 |-> S0, S |-> r.S,
               hit |-> CIH(CI) \in DOMAIN MatchedFuncsMap]
    /\ MatchedFuncsMap' = r.cache

\* one call of findCalleesWithType, after collection
QueryType ==
    /\ todo = <<>>
    /\ \E CI \in CI_T, S0 \in SeedSets :
          TypeReturned(CI, S0, findCalleesWithType(CI, S0, MatchedFuncsMap))
    /\ UNCHANGED <<SOUND_MODE, MLTA_FIELD_INSENSITIVE, stores, casts, globals,
                   todo, sigFuncsMap, typeIdxFuncsMap, typeIdxPropMap,
                   typeCapSet, typeEscapeSet, AliasStructPtrMap,
                   VTableFuncsMap, lastCI, FS, qlog>>

\* one call of findCalleesWithMLTA, after collection
QuerySig ==
    /\ todo = <<>>
    /\ \E CI \in CI_T \ {"ci"} :
          Returned(CI, findCalleesWithMLTA(CI, MatchedFuncsMap))
    /\ UNCHANGED <<SOUND_MODE, MLTA_FIELD_INSENSITIVE, stores, casts, globals,
                   VTableFuncsMap, ret, todo, typeCapSet,
                   typeEscapeSet, AliasStructPtrMap>>

NextSig ==
    \/ BuildSigFuncs \/ CollectAlias \/ TypeConfine \/ TypeProp
    \/ QueryType \/ QuerySig

SpecSig == InitSig /\ [][NextSig]_vars

\* the parameters of F are no more than the arguments of CI and each
\* fuzzy-matches the argument at its position; the return types fuzzy-match
SignatureFits(F, CI) ==
    /\ Len(getFunctionType(F).params) <= Len(CallArgs(CI))
    /\ \A k \in 1..Len(getFunctionType(F).params) :
          fuzzyTypeMatch(getFunctionType(F).params[k], CallArgs(CI)[k],
                         TheModule, TheModule)
    /\ fuzzyTypeMatch(getFunctionType(F).ret, FuncTypes[CallSites[CI].fty].ret,
                      TheModule, TheModule)

\* C22 -- Arity and variadic matching: findCalleesWithType(CI), called with
\* an empty output set, never returns a non-variadic function whose parameter
\* count differs from CI's argument count; it returns every non-intrinsic
\* address-taken function of equal arity whose parameter types and return
\* type fuzzy-match, and every (non-intrinsic address-taken) variadic function
\* whose leading fixed parameters and return type fuzzy-match.
C22_ArityAndVariadic ==
    (ret.op = "findCalleesWithType" /\ ret.S0 = {} /\ ~isInlineAsm(ret.CI)) =>
        /\ \A F \in ret.S :
              \/ getFunctionType(F).vararg
              \/ Len(getFunctionType(F).params) = Len(CallArgs(ret.CI))
        /\ \A F \in AddressTakenFuncs :
              ( /\ ~isIntrinsic(F)
                /\ getFunctionType(F).vararg
                     \/ Len(getFunctionType(F).params) = Len(CallArgs(ret.CI))
                /\ SignatureFits(F, ret.CI) )
              => F \in ret.S

-----------------------------------------------------------------------------
(* Collection over a module that stores and initializes with an intrinsic *)

StoresI == {St("e0", "fi"), St("e1", "f2"), St("bb", "f1")}

InitIntr ==
    /\ SOUND_MODE \in BOOLEAN
    /\ MLTA_FIELD_INSENSITIVE \in BOOLEAN
    /\ stores \in {ss \in SUBSET StoresI : Cardinality(ss) <= MaxStores}
    /\ casts = {}
    /\ globals \in SUBSET {"gS", "gI"}
    /\ todo = PassesTwice
    /\ sigFuncsMap = EmptyMap
    /\ typeIdxFuncsMap = EmptyMap
    /\ typeIdxPropMap = EmptyMap
    /\ typeCapSet = {}
    /\ typeEscapeSet = {}
    /\ AliasStructPtrMap = [f \in {TheFunction} |-> EmptyMap]
    /\ VTableFuncsMap = EmptyMap
    /\ MatchedFuncsMap = EmptyMap
    /\ lastCI = "none"
    /\ FS = {}
    /\ qlog = <<>>
    /\ ret = [op |-> "none"]

SpecIntr == InitIntr /\ [][NextTwice]_vars

\* C23 -- Non-intrinsic invariant: in every state reachable by collection,
\* every function in any value set of typeIdxFuncsMap is non-intrinsic.
C23_NoIntrinsicCollected ==
    \A h \in DOMAIN typeIdxFuncsMap :
        \A i \in DOMAIN typeIdxFuncsMap[h] :
            \A F \in typeIdxFuncsMap[h][i] : ~isIntrinsic(F)

\* collection is over for a module that stores the intrinsic to a field and
\* names it in an initializer; the function next to it was confined
C23_Witness ==
    /\ Collected
    /\ "gI" \in globals
    /\ St("e0", "fi") \in stores
    /\ "f1" \in Get2(typeIdxFuncsMap, typeHash("S"), InitIdx(1))

-----------------------------------------------------------------------------
(* getBaseTypeChain step by step: the recursion of getBaseType and of       *)
(* nextLayerBaseType with an explicit stack of the PHI loops                *)

\* the number of steps one call of getBaseTypeChain is followed for
StepCap == 40

\* the values getBaseTypeChain is called for
ChainValues ==
    {V \in Values : /\ Present(V)
                    /\ IR[V].kind \in InstKinds \cup {"Global", "Argument", "Function"}}

\* the variables a call of getBaseTypeChain leaves alone
ChainFrame ==
    UNCHANGED <<SOUND_MODE, MLTA_FIELD_INSENSITIVE, stores, casts, globals,
                todo, sigFuncsMap, typeIdxFuncsMap, typeIdxPropMap, typeCapSet,
                typeEscapeSet, AliasStructPtrMap, VTableFuncsMap,
                MatchedFuncsMap, lastCI, FS, qlog>>

\* the call is running and has another step to take
Running(pc) ==
    /\ ret.op = "getBaseTypeChain"
    /\ ret.pc = pc
    /\ ret.steps < StepCap

\* the next step of the running call
Step(r) == ret' = [r EXCEPT !.steps = ret.steps + 1]

InitChain ==
    /\ SOUND_MODE \in BOOLEAN
    /\ MLTA_FIELD_INSENSITIVE \in BOOLEAN
    /\ stores \in {ss \in SUBSET StoresG : Cardinality(ss) <= MaxStores}
    /\ casts = {}
    /\ globals = {}
    /\ todo = <<"alias">>
    /\ sigFuncsMap = EmptyMap
    /\ typeIdxFuncsMap = EmptyMap
    /\ typeIdxPropMap = EmptyMap
    /\ typeCapSet = {}
    /\ typeEscapeSet = {}
    /\ AliasStructPtrMap = [f \in {TheFunction} |-> EmptyMap]
    /\ VTableFuncsMap = EmptyMap
    /\ MatchedFuncsMap = EmptyMap
    /\ lastCI = "none"
    /\ FS = {}
    /\ qlog = <<>>
    /\ ret = [op |-> "none"]

\* getBaseTypeChain(Chain, V, Complete, DL) is entered: Complete = true,
\* CV = V, NextV = NULL, empty TyList and Visited, then getBaseType(V, Visited)
ChainStart ==
    /\ todo = <<>>
    /\ ret.op = "none"
    /\ \E V \in ChainValues :
          ret' = [op |-> "getBaseTypeChain", V |-> V, pc |-> "baseCall",
                  cur |-> V, Visited |-> {}, TyList |-> <<>>, NextV |-> NULL,
                  stack |-> <<>>, ty |-> NULL, rv |-> FALSE, BTy |-> NULL,
                  steps |-> 0, met |-> FALSE, Chain |-> <<>>,
                  Complete |-> TRUE]
    /\ ChainFrame

\* getBaseType(cur, Visited) up to its return or its next call
BaseCall ==
    /\ Running("baseCall")
    /\ LET V == ret.cur
           Vis == ret.Visited \cup {V}
       IN IF V = NULL
          THEN Step([ret EXCEPT !.pc = "baseRet", !.ty = NULL])
          ELSE IF V \in ret.Visited
          THEN Step([ret EXCEPT !.pc = "baseRet", !.ty = NULL, !.met = TRUE])
          ELSE IF isCompositeType(IR[V].ty)
          THEN Step([ret EXCEPT !.pc = "baseRet", !.ty = IR[V].ty,
                                !.Visited = Vis])
          ELSE IF /\ isPointerTy(IR[V].ty)
                  /\ isCompositeType(getPointerElementType(IR[V].ty))
          THEN Step([ret EXCEPT !.pc = "baseRet",
                                !.ty = getPointerElementType(IR[V].ty),
                                !.Visited = Vis])
          ELSE IF isPointerTy(IR[V].ty) /\ recoverBaseType(V) # NULL
          THEN Step([ret EXCEPT !.pc = "baseRet",
                                !.ty = getPointerElementType(IR[recoverBaseType(V)].ty),
                                !.Visited = Vis])
          ELSE IF IR[V].kind \in {"BitCast", "Select", "Load"}
          THEN Step([ret EXCEPT !.cur = IR[V].ops[1], !.Visited = Vis])
          ELSE IF IR[V].kind = "PHI"
          THEN Step([ret EXCEPT !.cur = IR[V].ops[1], !.Visited = Vis,
                                !.stack = <<[PN |-> V, i |-> 1, TyList |-> <<>>,
                                             Visited |-> {}]>> \o ret.stack])
          ELSE Step([ret EXCEPT !.pc = "baseRet", !.ty = NULL, !.Visited = Vis])
    /\ ChainFrame

\* a call of getBaseType returns: to the loop of _getPhiBaseType, or to
\* getBaseTypeChain, which pushes (BTy, 0), clears Visited and starts its
\* while loop with nextLayerBaseType(CV, TyList, NextV, Visited)
BaseReturn ==
    /\ Running("baseRet")
    /\ IF ret.stack = <<>>
       THEN Step([ret EXCEPT !.pc = "walkCall", !.BTy = ret.ty, !.cur = ret.V,
                             !.Visited = {}])
       ELSE IF ret.ty # NULL \/ Head(ret.stack).i = Len(IR[Head(ret.stack).PN].ops)
       THEN Step([ret EXCEPT !.stack = Tail(ret.stack)])
       ELSE Step([ret EXCEPT !.pc = "baseCall",
                             !.cur = IR[Head(ret.stack).PN].ops[Head(ret.stack).i + 1],
                             !.stack[1].i = Head(ret.stack).i + 1])
    /\ ChainFrame

\* the walker that takes every value for new
WalkSeen_Never(V, Visited) == FALSE

\* if (Visited.find(V) != Visited.end())  of nextLayerBaseType
WalkSeen(V, Visited) == V \in Visited

\* the GEP case of nextLayerBaseType in the running call
WalkGEP(V, g, Vis) ==
    Step([ret EXCEPT !.pc = "walkRet", !.rv = g.ret, !.TyList = g.TyList,
                     !.NextV = IF g.ret THEN IR[V].ops[1] ELSE NULL,
                     !.Visited = Vis])

\* nextLayerBaseType(cur, TyList, NextV, Visited) up to its return or its
\* next call
WalkCall ==
    /\ Running("walkCall")
    /\ LET V == ret.cur
           Vis == ret.Visited \cup {V}
       IN IF V = NULL \/ IR[V].kind = "Argument"
          THEN Step([ret EXCEPT !.pc = "walkRet", !.rv = FALSE, !.NextV = V])
          ELSE IF WalkSeen(V, ret.Visited)
          THEN Step([ret EXCEPT !.pc = "walkRet", !.rv = FALSE, !.NextV = V,
                                !.met = TRUE])
          ELSE IF IR[V].kind = "GEP"
          THEN WalkGEP(V, getGEPLayerTypes(V, ret.TyList), Vis)
          ELSE IF IR[V].kind \in {"Load", "BitCast", "Select", "Unary"}
          THEN Step([ret EXCEPT !.cur = IR[V].ops[1], !.NextV = IR[V].ops[1],
                                !.Visited = Vis])
          ELSE IF IR[V].kind = "PHI"
          THEN Step([ret EXCEPT !.cur = IR[V].ops[1], !.NextV = IR[V].ops[1],
                                !.Visited = Vis,
                                !.stack = <<[PN |-> V, i |-> 1,
                                             TyList |-> ret.TyList,
                                             Visited |-> Vis]>> \o ret.stack])
          ELSE Step([ret EXCEPT !.pc = "walkRet", !.rv = FALSE, !.NextV = NULL,
                                !.Visited = Vis])
    /\ ChainFrame

\* a call of nextLayerBaseType returns: to the loop of the PHI case, which
\* leaves when NTyList grew or the incoming values are used up, or to the
\* while loop of getBaseTypeChain, which goes on with CV = NextV
WalkReturn ==
    /\ Running("walkRet")
    /\ ret.stack # <<>> \/ ret.rv
    /\ IF ret.stack = <<>>
       THEN Step([ret EXCEPT !.pc = "walkCall", !.cur = ret.NextV])
       ELSE IF \/ Len(ret.TyList) > Len(Head(ret.stack).TyList)
               \/ Head(ret.stack).i = Len(IR[Head(ret.stack).PN].ops)
       THEN Step([ret EXCEPT !.stack = Tail(ret.stack)])
       ELSE Step([ret EXCEPT !.pc = "walkCall",
                             !.cur = IR[Head(ret.stack).PN].ops[Head(ret.stack).i + 1],
                             !.NextV = IR[Head(ret.stack).PN].ops[Head(ret.stack).i + 1],
                             !.TyList = Head(ret.stack).TyList,
                             !.Visited = Head(ret.stack).Visited,
                             !.stack[1].i = Head(ret.stack).i + 1])
    /\ ChainFrame

\* the chain and Complete, and the type the call caps
ChainDone(c) ==
    /\ Step([ret EXCEPT !.pc = "done", !.Chain = c.Chain,
                        !.Complete = c.Complete])
    /\ typeCapSet' = typeCapSet \cup c.cap

\* the while loop is left: the chain is filled, Complete is set and the
\* call returns
ChainFinish ==
    /\ Running("walkRet")
    /\ ret.stack = <<>> /\ ~ret.rv
    /\ ChainDone(BaseTypeChainOf(ret.BTy, ret))
    /\ UNCHANGED <<SOUND_MODE, MLTA_FIELD_INSENSITIVE, stores, casts, globals,
                   todo, sigFuncsMap, typeIdxFuncsMap, typeIdxPropMap,
                   typeEscapeSet, AliasStructPtrMap, VTableFuncsMap,
                   MatchedFuncsMap, lastCI, FS, qlog>>

NextChain ==
    \/ CollectAlias \/ ChainStart \/ BaseCall \/ BaseReturn \/ WalkCall
    \/ WalkReturn \/ ChainFinish

\* a call that was entered keeps running until it returns
SpecChain == InitChain /\ [][NextChain]_vars /\ WF_vars(NextChain)

\* C24 -- Base-chain termination: getBaseTypeChain(V) terminates for every
\* value V, also when the use-def graph is cyclic through PHI nodes, loads,
\* bitcasts and GEPs: every call that is entered returns.
C24_ChainTerminates ==
    (ret.op = "getBaseTypeChain")
        ~> (ret.op = "getBaseTypeChain" /\ ret.pc = "done")

\* a call on the list walk ph = phi(ph->next, gO) returned after the walker
\* met a value again
C24_Witness ==
    /\ ret.op = "getBaseTypeChain"
    /\ ret.pc = "done"
    /\ ret.V = "lk"
    /\ ret.met
    /\ "ph" \in ret.Visited

-----------------------------------------------------------------------------
(* The empty first layer *)

\* the call returned false with FS empty, walked no layer and left the cache
EmptySeedResult(q, cache) ==
    /\ ~q.ret
    /\ q.FS = {}
    /\ q.log = <<>>
    /\ q.cache = cache
    /\ q.LayerNo = 1

\* sigFuncsMap[callHash(CI)] is empty or absent
EmptySeed(CI) ==
    callHash(CI) \notin DOMAIN sigFuncsMap \/ sigFuncsMap[callHash(CI)] = {}

\* C25 -- Empty seed: when sigFuncsMap[callHash(CI)] is empty,
\* findCalleesWithMLTA(CI) returns false with FS empty, without walking any
\* layer and without writing to MatchedFuncsMap.
C25_EmptySeed ==
    \A CI \in CI_s :
        EmptySeed(CI) =>
            EmptySeedResult(findCalleesWithMLTA(CI, MatchedFuncsMap),
                            MatchedFuncsMap)

\* after collection and after queries that filled the cache, the call site
\* cg, whose signature no function has, was queried
C25_Witness ==
    /\ todo = <<>>
    /\ MatchedFuncsMap # EmptyMap
    /\ lastCI = "cg"
    /\ EmptySeed("cg")
    /\ FS = {} /\ qlog = <<>>

-----------------------------------------------------------------------------
(* Confinement of a stored function *)

\* typeConfineInFunction has run
ConfineDone == \A k \in DOMAIN todo : todo[k] # "confine"

\* the chain ends at a null next value, at a pointer-typed argument or at the
\* pointer operand of some store
Incomplete(NextV) ==
    \/ NextV = NULL
    \/ IR[NextV].kind = "Argument" /\ isPointerTy(IR[NextV].ty)
    \/ \E SI \in stores : SI.kind = "store" /\ SI.po = NextV

\* F is in the slot of every element of the chain c
InEverySlot(c, F) ==
    \A k \in DOMAIN c.Chain :
        F \in Get2(typeIdxFuncsMap, typeHash(c.Chain[k][1]), c.Chain[k][2])

\* the key an incomplete chain c caps for F
CapKey(c, F) ==
    IF c.Chain # <<>> THEN typeHash(c.Chain[Len(c.Chain)][1]) ELSE funcHash(F)

\* what confineTargetFunction(V, F) left in the tables; c is the base-type
\* chain of V and w the walk of V
ConfinedWithCap(c, w, F) ==
    /\ InEverySlot(c, F)
    /\ Incomplete(w.NextV) => CapKey(c, F) \in typeCapSet

\* C26 -- Confinement with cap: confineTargetFunction(V, F) for a
\* non-intrinsic F inserts F into typeIdxFuncsMap[type_key(T)][i] for every
\* (T, i) of the base-type chain of V, and when the chain is incomplete it
\* inserts the type key of the chain's last element, or funcHash(F) when the
\* chain is empty, into typeCapSet.
C26_ConfinementWithCap ==
    ConfineDone =>
        \A SI \in stores :
            (/\ SI.kind = "store"
             /\ getBaseFunction(stripPointerCasts(SI.vo)) # NULL)
            => ConfinedWithCap(getBaseTypeChain(SI.po),
                               WalkAll(SI.po, <<>>, {}),
                               getBaseFunction(stripPointerCasts(SI.vo)))

\* after confinement of a store through an argument without any layer (empty
\* chain, funcHash capped) and of a store to a field of an argument's struct
\* (chain of one element, its type capped)
C26_Witness ==
    /\ ConfineDone
    /\ St("aQ", "f1") \in stores
    /\ getBaseTypeChain("aQ").Chain = <<>>
    /\ funcHash("f1") \in typeCapSet
    /\ \E SI \in stores :
          /\ SI.kind = "store"
          /\ getBaseTypeChain(SI.po).Chain # <<>>
          /\ ~getBaseTypeChain(SI.po).Complete
          /\ typeHash(getBaseTypeChain(SI.po).Chain[1][1]) \in typeCapSet

-----------------------------------------------------------------------------
(* findCalleesWithMLTA step by step: one step per iteration of the while    *)
(* loop                                                                     *)

\* the number of iterations one call of findCalleesWithMLTA is followed for
IterCap == 8

\* the while loop is left with the locals q
LoopExit(q) == [q |-> q, exit |-> TRUE]

\* the for loop ended with the locals q1: TyList.clear(), then the loop
\* condition ContinueNextLayer
IterNext(q1) == [q |-> q1, exit |-> ~q1.cont]

\* the body of the while loop once nextLayerBaseType returned nl
IterLayers(q, nl) ==
    IF nl.TyList = <<>> THEN LoopExit(q)
    ELSE IterNext(InnerLoop(q, nl.TyList, 1, nl.NextV))

\* one iteration of while (ContinueNextLayer): the locals after it and
\* whether the loop is left
OuterIteration(q) ==
    IF LayerLimit(q.LayerNo, q.max) THEN LoopExit(q)
    ELSE IF Capped(q.PrevLayerTy)
    THEN LoopExit([q EXCEPT !.log = Append(q.log,
                      Ev("captop", q.PrevLayerTy, 0, q.LayerNo, {}, q.FS, q.CV))])
    ELSE IterLayers(q, nextLayerBaseType(q.CV, <<>>, {}))

InitQuery ==
    /\ SOUND_MODE \in BOOLEAN
    /\ MLTA_FIELD_INSENSITIVE = FALSE
    /\ stores \in {ss \in SUBSET CandStores : Cardinality(ss) <= MaxStores}
    /\ casts = {}
    /\ globals = {}
    /\ VTableFuncsMap = EmptyMap
    /\ ret = [op |-> "none"]
    /\ todo = Passes
    /\ sigFuncsMap = EmptyMap
    /\ typeIdxFuncsMap = EmptyMap
    /\ typeIdxPropMap = EmptyMap
    /\ typeCapSet = {}
    /\ typeEscapeSet = {}
    /\ AliasStructPtrMap = [f \in {TheFunction} |-> EmptyMap]
    /\ MatchedFuncsMap = EmptyMap
    /\ lastCI = "none"
    /\ FS = {}
    /\ qlog = <<>>

\* the variables a running query leaves alone until it returns
QueryFrame ==
    UNCHANGED <<SOUND_MODE, MLTA_FIELD_INSENSITIVE, stores, casts, globals,
                todo, sigFuncsMap, typeIdxFuncsMap, typeIdxPropMap, typeCapSet,
                typeEscapeSet, AliasStructPtrMap, VTableFuncsMap,
                MatchedFuncsMap, lastCI, FS, qlog>>

\* the call is entered with the locals q0: FS = sigFuncsMap[callHash(CI)],
\* return false when FS is empty, the while loop otherwise
QueryEntered(CI, q0) ==
    ret' = [op |-> "findCalleesWithMLTA", CI |-> CI,
            pc |-> IF q0.FS = {} THEN "exit" ELSE "loop",
            q |-> IF q0.FS = {} THEN [q0 EXCEPT !.ret = FALSE] ELSE q0,
            iters |-> 0]

\* findCalleesWithMLTA(CI, FS) is called, after collection
QueryStart ==
    /\ todo = <<>>
    /\ IF ret.op = "none" THEN TRUE ELSE ret.pc = "done"
    /\ \E CI \in CI_s :
          QueryEntered(CI, InitialLocals(CI, MatchedFuncsMap, MAX_TYPE_LAYER))
    /\ QueryFrame

\* the running call after an iteration that returned r
Iterated(r) ==
    ret' = [ret EXCEPT !.q = r.q,
                       !.pc = IF r.exit THEN "exit" ELSE "loop",
                       !.iters = ret.iters + 1]

\* one iteration of the while loop of the running call
QueryIterate ==
    /\ ret.op = "findCalleesWithMLTA"
    /\ ret.pc = "loop"
    /\ ret.iters < IterCap
    /\ Iterated(OuterIteration(ret.q))
    /\ QueryFrame

\* the call returns: FS and the maps as the call left them
QueryReturn ==
    /\ ret.op = "findCalleesWithMLTA"
    /\ ret.pc = "exit"
    /\ ret' = [ret EXCEPT !.pc = "done"]
    /\ Returned(ret.CI, ret.q)
    /\ UNCHANGED <<SOUND_MODE, MLTA_FIELD_INSENSITIVE, stores, casts, globals,
                   VTableFuncsMap, todo, typeCapSet, typeEscapeSet,
                   AliasStructPtrMap>>

NextQuery ==
    \/ BuildSigFuncs \/ CollectAlias \/ TypeConfine \/ TypeProp
    \/ QueryStart \/ QueryIterate \/ QueryReturn

SpecQuery == InitQuery /\ [][NextQuery]_vars

\* the while loop of the running call takes an iteration
IterationStep ==
    /\ ret.op = "findCalleesWithMLTA" /\ ret.pc = "loop"
    /\ ret'.op = "findCalleesWithMLTA" /\ ret'.iters = ret.iters + 1

\* the running call took no more iterations than its layer counter counts,
\* and the layer counter is within MAX_TYPE_LAYER
QueryBounded ==
    ret.op = "findCalleesWithMLTA" =>
        /\ ret.iters <= ret.q.LayerNo
        /\ ret.q.LayerNo <= MAX_TYPE_LAYER

\* C27 -- Query termination: findCalleesWithMLTA(CI) terminates for every
\* call site and every table content, in sound and non-sound mode, also when
\* an escaped layer is met and when the use-def graph of the callee operand
\* is cyclic: each iteration of the outer loop either leaves the loop or
\* increases the layer counter, the layer counter never exceeds
\* MAX_TYPE_LAYER, and so a call takes at most MAX_TYPE_LAYER iterations.
C27_QueryTerminates ==
    /\ []QueryBounded
    /\ [][IterationStep =>
             (ret'.pc = "exit" \/ ret'.q.LayerNo > ret.q.LayerNo)]_vars

\* a sound-mode call returned after escaped layers sent it back into the
\* outer loop more than once
C27_Witness ==
    /\ ret.op = "findCalleesWithMLTA"
    /\ ret.pc = "done"
    /\ SOUND_MODE
    /\ ret.iters > 1
    /\ Cardinality({k \in DOMAIN ret.q.log : ret.q.log[k].ev = "escape"}) > 1


-----------------------------------------------------------------------------
(* Full MLTA against signature matching *)

\* every function in sigFuncsMap is an address-taken non-intrinsic function
\* stored under its own funcHash
SigIndexSound ==
    \A h \in DOMAIN sigFuncsMap :
        \A F \in sigFuncsMap[h] :
            F \in AddressTakenFuncs /\ ~isIntrinsic(F) /\ funcHash(F) = h

\* the functions the MLTA query m returns are among those the signature
\* query t returns
Refines(m, t) == m.FS \subseteq t.S

\* C28 -- Full MLTA refines signature matching: provided every function in
\* sigFuncsMap is an address-taken non-intrinsic function stored under its own
\* funcHash, for every call site CI that is not inline asm the result of
\* findCalleesWithMLTA(CI) is a subset of the result of
\* findCalleesWithType(CI) called with an empty output set.
C28_MLTARefinesSignature ==
    (todo = <<>> /\ SigIndexSound) =>
        \A CI \in CI_T :
            ~isInlineAsm(CI) =>
                Refines(findCalleesWithMLTA(CI, MatchedFuncsMap),
                        findCalleesWithType(CI, {}, MatchedFuncsMap))

\* both resolvers answered for c0 after stores were collected: MLTA kept
\* some of the functions signature matching returned and dropped others
C28_Witness ==
    /\ todo = <<>>
    /\ SigIndexSound
    /\ stores # {}
    /\ lastCI = "c0"
    /\ ret.op = "findCalleesWithType" /\ ret.CI = "c0" /\ ret.S0 = {}
    /\ FS # {}
    /\ FS \subseteq ret.S
    /\ FS # ret.S


-----------------------------------------------------------------------------
(* IterativeModulePass::run: the driver of a pass over the loaded modules   *)

\* how often doInitialization, and how often doFinalization, may return true
MaxAgain == 2

\* the orders in which a ModuleMap holding the modules S is iterated
ModuleOrders(S) ==
    { o \in [1..Cardinality(S) -> S] : \A i, j \in DOMAIN o : o[i] = o[j] => i = j }

\* the context before a pass is run over the modules
InitRun ==
    /\ SOUND_MODE \in BOOLEAN
    /\ MLTA_FIELD_INSENSITIVE = FALSE
    /\ stores = {}
    /\ casts = {}
    /\ globals = {}
    /\ todo = <<>>
    /\ sigFuncsMap = EmptyMap
    /\ typeIdxFuncsMap = EmptyMap
    /\ typeIdxPropMap = EmptyMap
    /\ typeCapSet = {}
    /\ typeEscapeSet = {}
    /\ AliasStructPtrMap = [f \in {TheFunction} |-> EmptyMap]
    /\ VTableFuncsMap = EmptyMap
    /\ MatchedFuncsMap = EmptyMap
    /\ lastCI = "none"
    /\ FS = {}
    /\ qlog = <<>>
    /\ ret = [op |-> "none"]

\* the variables run leaves alone
RunFrame ==
    UNCHANGED <<SOUND_MODE, MLTA_FIELD_INSENSITIVE, stores, casts, globals,
                todo, sigFuncsMap, typeIdxFuncsMap, typeIdxPropMap, typeCapSet,
                typeEscapeSet, AliasStructPtrMap, VTableFuncsMap,
                MatchedFuncsMap, lastCI, FS, qlog>>

\* run is at the statement pc
RunAt(pc) == ret.op = "run" /\ ret.pc = pc

\* the for loop over modules has a module left
InLoop == ret.i <= Len(ret.mods)

\* run(modules, multithreaded) is entered: again = true, and the first sweep
\* of the while loop starts with again = false
RunStart ==
    /\ ret.op = "none"
    /\ \E S \in SUBSET Modules, mt \in BOOLEAN :
          \E o \in ModuleOrders(S) :
              ret' = [op |-> "run", pc |-> "init", multithreaded |-> mt,
                      mods |-> o, i |-> 1, again |-> FALSE, sweep |-> <<>>,
                      sweeps |-> 0, trues |-> 0,
                      task |-> [m \in S |-> "none"],
                      runs |-> [m \in S |-> 0],
                      fins |-> 0]
    /\ RunFrame

\* again |= doInitialization(module): the result r is the pass's
InitCall ==
    /\ RunAt("init") /\ InLoop
    /\ \E r \in BOOLEAN :
          /\ r => ret.trues < MaxAgain
          /\ ret' = [ret EXCEPT !.again = ret.again \/ r,
                                !.sweep = Append(ret.sweep, r),
                                !.trues = IF r THEN ret.trues + 1 ELSE ret.trues,
                                !.i = ret.i + 1]
    /\ RunFrame

\* the for loop of an initialization sweep ended: while (again) starts the
\* next sweep or leaves the loop for the module passes
InitSweepEnd ==
    /\ RunAt("init") /\ ~InLoop
    /\ ret' = IF ret.again
              THEN [ret EXCEPT !.again = FALSE, !.sweep = <<>>, !.i = 1,
                               !.sweeps = ret.sweeps + 1]
              ELSE [ret EXCEPT !.pc = "pass", !.i = 1, !.trues = 0,
                               !.sweeps = ret.sweeps + 1]
    /\ RunFrame

\* ThreadPool::get()->enqueue(&IterativeModulePass::_doModulePass, this, module)
PassEnqueue ==
    /\ RunAt("pass") /\ InLoop /\ ret.multithreaded
    /\ ret' = [ret EXCEPT !.task[ret.mods[ret.i]] = "queued", !.i = ret.i + 1]
    /\ RunFrame

\* no _doModulePass is running
NoneRunning == \A m \in DOMAIN ret.task : ret.task[m] # "running"

\* _doModulePass(module) is called by run itself, once the call before it
\* returned
PassDirect ==
    /\ RunAt("pass") /\ InLoop /\ ~ret.multithreaded
    /\ NoneRunning
    /\ ret' = [ret EXCEPT !.task[ret.mods[ret.i]] = "running",
                          !.runs[ret.mods[ret.i]] = @ + 1,
                          !.i = ret.i + 1]
    /\ RunFrame

\* a thread of the pool takes an enqueued _doModulePass and starts it
TaskStart ==
    /\ ret.op = "run"
    /\ \E m \in DOMAIN ret.task :
          /\ ret.task[m] = "queued"
          /\ ret' = [ret EXCEPT !.task[m] = "running", !.runs[m] = @ + 1]
    /\ RunFrame

\* a running _doModulePass returns
TaskFinish ==
    /\ ret.op = "run"
    /\ \E m \in DOMAIN ret.task :
          /\ ret.task[m] = "running"
          /\ ret' = [ret EXCEPT !.task[m] = "done"]
    /\ RunFrame

\* the loop over modules of the module pass ended: ThreadPool::get()->wait()
\* is next in multithreaded mode, again = true and the postprocessing loop
\* otherwise
PassEnd ==
    /\ RunAt("pass") /\ ~InLoop
    /\ ret.multithreaded \/ NoneRunning
    /\ ret' = [ret EXCEPT !.pc = IF ret.multithreaded THEN "wait" ELSE "final",
                          !.i = 1, !.again = FALSE]
    /\ RunFrame

\* the pool holds no task that is enqueued or running
PoolIdle == \A m \in DOMAIN ret.task : ret.task[m] \in {"none", "done"}

\* run goes on to postprocessing without waiting for the pool
Wait_Skipped ==
    /\ RunAt("wait")
    /\ ret' = [ret EXCEPT !.pc = "final", !.i = 1, !.again = FALSE]
    /\ RunFrame

\* ThreadPool::get()->wait() returns
Wait ==
    /\ RunAt("wait")
    /\ PoolIdle
    /\ ret' = [ret EXCEPT !.pc = "final", !.i = 1, !.again = FALSE]
    /\ RunFrame

\* again |= doFinalization(module)
FinalCall ==
    /\ RunAt("final") /\ InLoop
    /\ \E r \in BOOLEAN :
          /\ r => ret.trues < MaxAgain
          /\ ret' = [ret EXCEPT !.again = ret.again \/ r,
                                !.trues = IF r THEN ret.trues + 1 ELSE ret.trues,
                                !.fins = ret.fins + 1,
                                !.i = ret.i + 1]
    /\ RunFrame

\* the for loop of a postprocessing sweep ended: the next sweep, or run
\* returns
FinalSweepEnd ==
    /\ RunAt("final") /\ ~InLoop
    /\ ret' = IF ret.again
              THEN [ret EXCEPT !.again = FALSE, !.i = 1]
              ELSE [ret EXCEPT !.pc = "done"]
    /\ RunFrame

NextRun ==
    \/ RunStart \/ InitCall \/ InitSweepEnd
    \/ PassEnqueue \/ PassDirect \/ TaskStart \/ TaskFinish \/ PassEnd \/ Wait
    \/ FinalCall \/ FinalSweepEnd

SpecRun == InitRun /\ [][NextRun]_vars

\* the last initialization sweep covered every module and every
\* doInitialization of it returned false
SweepQuiet ==
    /\ Len(ret.sweep) = Len(ret.mods)
    /\ \A k \in DOMAIN ret.sweep : ~ret.sweep[k]

====
